---- MODULE Spec2Model ----
(***************************************************************************)
(* FlowCraft-Enhanced backend: the document-analysis pipeline (OCR engine  *)
(* selection and fallback, PDF page loop, keyword classification) and the  *)
(* processing lifecycle of Document and ProcessingJob rows.                *)
(*                                                                         *)
(* Conventions.  A confidence is a fixed-point number of hundredths:       *)
(* ONE = 100 stands for the float 1.0, so Tesseract's per-word confidence  *)
(* 96 (a float on the 0..100 scale) is 9600.  A text is abstracted to the  *)
(* first character of the raw string (head) and the length of the stripped *)
(* string (n), saturating at LenCap; this is all the code ever tests of a  *)
(* text outside the regex/keyword helpers.                                 *)
(*                                                                         *)
(* Faults.  The OCR engines, opening a file, the analysis service and      *)
(* Celery's update_state may raise; a database commit does not.  A commit  *)
(* writes the attributes that changed since the object was loaded.         *)
(*                                                                         *)
(* Specifications.  SpecOcr: one call of DocumentProcessor.ocr or          *)
(* OCRService.extract_text.  SpecClassify: classify_document on a text.    *)
(* SpecDocs: the document endpoints of api/v1 and routers with their       *)
(* background tasks; FairSpecV1: the api/v1 router alone, an accepted      *)
(* task being run to its end.  SpecJob: process_document_task.             *)
(***************************************************************************)
EXTENDS Integers, Sequences, FiniteSets, TLC

VARIABLES
    file,     \* the file handed to the OCR layer
    pdf,      \* locals of the page loop of _ocr_pdf / extract_text_from_pdf
    result,   \* what the OCR call returned (or raised)
    text,     \* the text handed to classify_document
    cls,      \* what classify_document returned
    docs,     \* the documents table: one row per document id
    procs,    \* requests and background tasks in flight
    accepted, \* how many requests the server has accepted so far
    jobs,     \* the processing_jobs table
    ai_models, \* the ai_models table
    workers,  \* the executions of process_document_task, one per job
    tokens,   \* the text handed to extract_key_value_pairs, as lexical items
    extracted, \* what extract_key_value_pairs returned
    ai_result, \* what ai_analyze returned
    document_shares, \* the document_shares table: one row per share id
    now,      \* the clock datetime.utcnow() reads
    response, \* the answer to the request just served (none once time has passed)
    document_tags, \* the document_tags table: one row per tag id
    document_tag_association, \* the rows (document id, tag id) of the association table
    users,    \* the users table: one row per user id
    calls,    \* the register calls between their lookup and their commit
    app,      \* the application that serves: app.main with one of its two auth routers, or main.py
    templates, \* ExportService.templates of the running server
    export_configs, \* the export_configs table: one row per config id
    export_dir, \* the files in settings.EXPORT_DIR
    uuids,    \* how many uuid4 values the export code has drawn
    cache,    \* DocumentProcessor.cache: file path -> cached result
    batch     \* the last process_batch call: its paths, its time and what it returned

ocrVars == <<file, pdf, result>>
clsVars == <<text, cls>>
docVars == <<docs, procs, accepted>>
jobVars == <<jobs, ai_models, workers>>
kvVars == <<tokens, extracted>>
\* the variables of the parts added after the job worker
shareVars == <<document_shares, now, response>>
tagVars == <<document_tags, document_tag_association>>
authVars == <<users, calls, app>>
exportVars == <<templates, export_configs, export_dir, uuids>>
cacheVars == <<cache, batch>>
restVars == <<exportVars, cacheVars>>
extVars == <<kvVars, ai_result, shareVars, tagVars, authVars, restVars>>
vars == <<file, pdf, result, text, cls, docs, procs, accepted, jobs, ai_models, workers,
          tokens, extracted, ai_result, document_shares, now, response,
          document_tags, document_tag_association, users, calls, app,
          templates, export_configs, export_dir, uuids, cache, batch>>

\* the variables each part of the model leaves alone
ocrOthers == <<clsVars, docVars, jobVars, extVars>>
clsOthers == <<ocrVars, docVars, jobVars, extVars>>
docOthers == <<ocrVars, clsVars, jobVars, extVars>>
jobOthers == <<ocrVars, clsVars, procs, accepted, extVars>>
kvOthers ==
    <<ocrVars, clsVars, docVars, jobVars, ai_result, shareVars, tagVars, authVars, restVars>>
tagOthers ==
    <<ocrVars, clsVars, procs, accepted, jobVars, kvVars, ai_result, authVars, restVars>>
authOthers ==
    <<ocrVars, clsVars, docVars, jobVars, kvVars, ai_result, document_shares, now, tagVars,
      restVars>>
exportOthers ==
    <<ocrVars, clsVars, docVars, jobVars, kvVars, ai_result, document_shares, now, tagVars,
      authVars, cacheVars>>
cacheOthers ==
    <<ocrVars, clsVars, docVars, jobVars, kvVars, ai_result, shareVars, tagVars, authVars,
      exportVars>>
shareOthers == <<tagOthers, tagVars>>

\* ------------------------------------------------------------------ bounds
LenCap == 60
MaxPageCount == 11
MaxWords == 4
MaxDocs == 1
MaxRequests == 2
MaxJobs == 2
MaxTokens == 3
MaxShares == 1
MaxTime == 1
MaxTags == 2
MaxUsers == 2
MaxCalls == 2
MaxConfigs == 1
MaxExports == 2

\* ------------------------------------------------------------- arithmetic
ONE == 100

Min(a, b) == IF a < b THEN a ELSE b

RECURSIVE SumSeq(_)
SumSeq(s) == IF s = <<>> THEN 0 ELSE Head(s) + SumSeq(Tail(s))

\* sum(xs) / len(xs) if xs else 0.0, in hundredths (xs already in hundredths)
Mean(xs) == IF Len(xs) > 0 THEN SumSeq(xs) \div Len(xs) ELSE 0

\* ------------------------------------------------------------------ texts
T(h, len) == [head |-> h, n |-> Min(len, LenCap)]
Empty == T("", 0)
\* every bracketed placeholder the code builds is longer than 10 characters
Bracket == T("[", LenCap)
\* a + b
Cat(a, b) == [head |-> IF a.head = "" THEN b.head ELSE a.head,
              n |-> Min(a.n + b.n, LenCap)]
\* "\n--- Page k ---\n": 14 characters once stripped
PageHeaderLen == 14
PageHeader == T("nl", PageHeaderLen)

\* ------------------------------------------------------- file name helpers
Lower(ext) == CASE ext = "PDF" -> "pdf" [] ext = "PNG" -> "png" [] OTHER -> ext

SUPPORTED_FORMATS_LIST == {"pdf", "png", "jpg", "jpeg", "bmp", "tiff"}

_is_supported(f) == Lower(f.ext) \in SUPPORTED_FORMATS_LIST

\* -------------------------------------------------------------- Tesseract
\* One entry of pytesseract's data['conf']: the no-text marker -1 arrives as
\* the string '-1' or as the integer -1, depending on the library version.
Word(isStr, v) == [str |-> isStr, v |-> v]

RECURSIVE WordVals(_)
WordVals(ws) == IF ws = <<>> THEN <<>> ELSE <<Head(ws).v * ONE>> \o WordVals(Tail(ws))

\* confs = [float(c) for c in data['conf'] if c != '-1']; sum/len or 0.0
_tesseract_confidence(image) ==
    IF image.data_raises THEN 0
    ELSE Mean(WordVals(SelectSeq(image.conf, LAMBDA c : ~(c.str /\ c.v = -1))))

\* variant: the error branches report a default confidence of 0.5
_ocr_tesseract_DefaultConf(image) ==
    CASE image.tess = "notfound" -> <<Bracket, 50>>
      [] image.tess = "error"    -> <<Bracket, 50>>
      [] OTHER                   -> <<image.text, _tesseract_confidence(image)>>

\* (text, conf); every exception becomes a bracketed placeholder and 0.0
_ocr_tesseract(image) ==
    CASE image.tess = "notfound" -> <<Bracket, 0>>
      [] image.tess = "error"    -> <<Bracket, 0>>
      [] OTHER                   -> <<image.text, _tesseract_confidence(image)>>

\* ---------------------------------------------------------------- EasyOCR
RECURSIVE EasyConfs(_)
EasyConfs(rs) ==
    IF rs = <<>> THEN <<>>
    ELSE (IF Head(rs).len3 THEN <<Head(rs).conf>> ELSE <<>>) \o EasyConfs(Tail(rs))

\* (text, avg_confidence); ("", 0.0) without reader, on no result and on error
_ocr_easyocr(f) ==
    IF ~f.reader THEN <<Empty, 0>>
    ELSE IF f.easy.raises THEN <<Empty, 0>>
    ELSE IF f.easy.res = <<>> THEN <<Empty, 0>>
    ELSE IF EasyConfs(f.easy.res) = <<>> THEN <<Empty, 0>>
    ELSE <<T("c", 12 * Len(EasyConfs(f.easy.res))), Mean(EasyConfs(f.easy.res))>>

\* the acceptance threshold of _ocr_with_fallback: conf > 0.5
EasyThreshold == 50

\* variant: EasyOCR accepted at conf >= 0.5
_ocr_with_fallback_AtLeast(f) ==
    IF f.reader /\ _ocr_easyocr(f)[2] >= EasyThreshold
    THEN [text |-> _ocr_easyocr(f)[1], confidence |-> _ocr_easyocr(f)[2],
          engine |-> "easyocr", ran |-> <<"easyocr">>]
    ELSE [text |-> _ocr_tesseract(f.image)[1], confidence |-> _ocr_tesseract(f.image)[2],
          engine |-> "tesseract",
          ran |-> IF f.reader THEN <<"easyocr", "tesseract">> ELSE <<"tesseract">>]

\* (text, conf, engine) and, for the record, the engines that were run
_ocr_with_fallback(f) ==
    IF f.reader /\ _ocr_easyocr(f)[2] > EasyThreshold
    THEN [text |-> _ocr_easyocr(f)[1], confidence |-> _ocr_easyocr(f)[2],
          engine |-> "easyocr", ran |-> <<"easyocr">>]
    ELSE [text |-> _ocr_tesseract(f.image)[1], confidence |-> _ocr_tesseract(f.image)[2],
          engine |-> "tesseract",
          ran |-> IF f.reader THEN <<"easyocr", "tesseract">> ELSE <<"tesseract">>]

\* ------------------------------------------------------------ call results
NoResult == [kind |-> "none"]
Raised(e) == [kind |-> "raised", error |-> e]
Returned(r) == [kind |-> "returned"] @@ r

\* DocumentProcessor.ocr for everything but the PDF page loop
ocr(f) ==
    IF ~_is_supported(f) THEN Raised("ValueError")
    ELSE IF ~f.loadable THEN Raised("ImageOpenError")
    ELSE Returned(_ocr_with_fallback(f))

\* ------------------------------------------------------------- OCRService
RECURSIVE PositiveVals(_)
PositiveVals(ws) ==
    IF ws = <<>> THEN <<>>
    ELSE (IF Head(ws).v > 0 THEN <<Head(ws).v>> ELSE <<>>) \o PositiveVals(Tail(ws))

\* (text, avg_confidence / 100.0); ("", 0.0) on every exception
extract_text_from_image(image, loadable) ==
    IF ~loadable \/ image.tess # "ok" \/ image.data_raises THEN <<Empty, 0>>
    ELSE <<image.text, Mean(PositiveVals(image.conf))>>

\* extract_text for the image and the plain-text branch
extract_text(f) ==
    IF f.mime = "image/png" THEN extract_text_from_image(f.image, f.loadable)
    ELSE IF f.loadable THEN <<T("c", 40), ONE>> ELSE <<Empty, 0>>

\* ------------------------------------------------------------ the PDF loops
\* Limit pages for performance (first 10 pages max)
PageCap == 10
\* a page's text layer is used when it has more than 50 characters
DirectMin == 50

\* variant: the cap is applied one page late
max_pages_OffByOne(f) == Min(f.npages, PageCap + 1)

max_pages(f) == Min(f.npages, PageCap)

Idle == [pc |-> "idle"]

PdfStart(f) ==
    [pc |-> "loop", fn |-> "_ocr_pdf", page_num |-> 0, text |-> Empty, confs |-> <<>>,
     engine |-> "tesseract", visited |-> <<>>, rastered |-> {}, long |-> {}]

\* the except branch of _ocr_pdf
PdfFailure == Returned([text |-> Bracket, confidence |-> 0, engine |-> "error", pages |-> 0])

UsesDirect(p) == ~p.direct_raises /\ p.dlen > 0 /\ p.dlen > DirectMin

\* one iteration of the page loop of _ocr_pdf; visited and rastered record
\* which pages the loop body ran for and which of them were rasterised
PdfPageStep(l, p) ==
    LET k     == l.page_num + 1
        seen  == [l EXCEPT !.page_num = k, !.visited = Append(l.visited, k)]
        tess  == _ocr_tesseract(p.image)
        valid == tess[1].head # "" /\ tess[1].head # "["
    IN  IF UsesDirect(p)
        THEN [seen EXCEPT !.text = Cat(Cat(l.text, PageHeader), T("c", p.dlen)),
                          !.confs = Append(l.confs, ONE),
                          !.engine = "direct_extraction"]
        ELSE IF p.raster_raises
        THEN [seen EXCEPT !.text = Cat(Cat(l.text, PageHeader), Bracket),
                          !.confs = Append(l.confs, 0),
                          !.rastered = l.rastered \cup {k}]
        ELSE IF valid
        THEN [seen EXCEPT !.text = Cat(Cat(l.text, PageHeader), tess[1]),
                          !.confs = Append(l.confs, tess[2]),
                          !.engine = "tesseract",
                          !.rastered = l.rastered \cup {k}]
        ELSE [seen EXCEPT !.text = Cat(Cat(l.text, PageHeader), Bracket),
                          !.confs = Append(l.confs, 0),
                          !.rastered = l.rastered \cup {k}]

\* after the loop: overall confidence, the no-text placeholder, the result
PdfResult(l, f) ==
    LET conf == Mean(l.confs)
        none == l.text.n = 0
    IN  Returned([text |-> IF none THEN Bracket ELSE l.text,
                  confidence |-> IF none THEN 0 ELSE conf,
                  engine |-> l.engine,
                  pages |-> max_pages(f),
                  total_pages |-> f.npages])

SvcStart == [pc |-> "loop", fn |-> "extract_text_from_pdf", page_count |-> 0,
             text |-> Empty, total_confidence |-> 0]

\* one iteration of the page loop of extract_text_from_pdf (no exception)
SvcPageStep(l, p) ==
    IF p.dlen > 0
    THEN [l EXCEPT !.text = Cat(l.text, T("c", p.dlen)),
                   !.total_confidence = l.total_confidence + ONE,
                   !.page_count = l.page_count + 1]
    ELSE LET r == extract_text_from_image(p.image, TRUE)
         IN  [l EXCEPT !.text = Cat(l.text, r[1]),
                       !.total_confidence = l.total_confidence + r[2],
                       !.page_count = l.page_count + 1]

SvcResult(l) ==
    <<l.text, IF l.page_count > 0 THEN l.total_confidence \div l.page_count ELSE 0>>

\* ------------------------------------------------------- classify_document
\* Document type keywords, in table order
document_keywords ==
    << [type |-> "invoice",  keywords |-> {"invoice", "bill", "statement", "amount due", "payment"}],
       [type |-> "contract", keywords |-> {"contract", "agreement", "terms", "conditions", "parties"}],
       [type |-> "form",     keywords |-> {"form", "application", "questionnaire", "survey"}],
       [type |-> "receipt",  keywords |-> {"receipt", "purchase", "transaction", "paid"}],
       [type |-> "letter",   keywords |-> {"dear", "sincerely", "regards", "correspondence"}],
       [type |-> "report",   keywords |-> {"report", "analysis", "findings", "conclusion", "summary"}] >>

AllKeywords == UNION { document_keywords[i].keywords : i \in DOMAIN document_keywords }

\* A text is the set of vocabulary phrases occurring in it, each spelled in
\* lower case (upper = FALSE) or in capitals (upper = TRUE).
Phrase(w, u) == [w |-> w, upper |-> u]

\* text.lower()
lower(t) == { Phrase(p.w, FALSE) : p \in t }

\* keyword in text_lower
Occurs(keyword, t) == Phrase(keyword, FALSE) \in t

\* scores[doc_type] = matches / len(keywords), in hundredths
Score(t, i) ==
    (Cardinality({ k \in document_keywords[i].keywords : Occurs(k, lower(t)) }) * ONE)
        \div Cardinality(document_keywords[i].keywords)

\* the classification threshold: if confidence < 0.3
GenericBelow == 30
\* the confidence reported with "generic"
GenericConfidence == 50

\* variant: the last of several equally scored categories wins
classify_document_LastMax(t) ==
    LET best == CHOOSE i \in DOMAIN document_keywords :
                    /\ \A j \in DOMAIN document_keywords : Score(t, j) <= Score(t, i)
                    /\ \A j \in DOMAIN document_keywords : j > i => Score(t, j) < Score(t, i)
    IN  IF Score(t, best) < GenericBelow
        THEN [type |-> "generic", confidence |-> GenericConfidence]
        ELSE [type |-> document_keywords[best].type, confidence |-> Score(t, best)]

\* max(scores, key=scores.get) is the first maximal entry in insertion order
classify_document(t) ==
    LET best == CHOOSE i \in DOMAIN document_keywords :
                    /\ \A j \in DOMAIN document_keywords : Score(t, j) <= Score(t, i)
                    /\ \A j \in DOMAIN document_keywords : j < i => Score(t, j) < Score(t, i)
    IN  IF Score(t, best) < GenericBelow
        THEN [type |-> "generic", confidence |-> GenericConfidence]
        ELSE [type |-> document_keywords[best].type, confidence |-> Score(t, best)]

NoClass == [type |-> "none", confidence |-> 0]

ClsIdle == text = {} /\ cls = NoClass

\* the phrases the checked texts are built from: some keywords of every
\* category and one phrase that is no keyword
Vocabulary ==
    {"invoice", "bill", "amount due", "contract", "terms", "parties",
     "form", "survey", "application", "receipt", "paid", "purchase",
     "dear", "regards", "report", "summary", "findings", "lorem"}

\* the caller's text grows by one phrase
AddPhrase ==
    /\ cls = NoClass
    /\ Cardinality(text) < MaxWords
    /\ \E w \in Vocabulary, u \in BOOLEAN :
          /\ \A p \in text : p.w # w /\ p.upper = u
          /\ text' = text \cup {Phrase(w, u)}
    /\ UNCHANGED <<cls, clsOthers>>

Classify ==
    /\ cls = NoClass
    /\ cls' = classify_document(text)
    /\ UNCHANGED <<text, clsOthers>>

NextClassify == AddPhrase \/ Classify

\* ------------------------------------------------------- inputs of the OCR layer
Img(t, txt, dr, c) == [tess |-> t, text |-> txt, data_raises |-> dr, conf |-> c]

NoImage == Img("error", Empty, FALSE, <<>>)

PageImages ==
    { Img("notfound", Empty, FALSE, <<>>),
      Img("ok", T("c", 40), FALSE, <<Word(FALSE, 96), Word(FALSE, 78)>>),
      Img("ok", T("[", 40), FALSE, <<Word(FALSE, 96), Word(FALSE, 78)>>),
      Img("ok", Empty, FALSE, <<Word(TRUE, -1)>>) }

Images ==
    PageImages \cup
    { Img("error", Empty, FALSE, <<>>),
      Img("ok", T("c", 5), FALSE, <<Word(TRUE, -1), Word(FALSE, 60)>>),
      Img("ok", T("c", 40), TRUE, <<>>),
      Img("ok", T("c", 11), FALSE, <<Word(FALSE, -1), Word(FALSE, 0)>>) }

Easy(r, res) == [raises |-> r, res |-> res]
Hit(c) == [len3 |-> TRUE, conf |-> c]
NoEasy == Easy(TRUE, <<>>)

EasyOutcomes ==
    { Easy(TRUE, <<>>), Easy(FALSE, <<>>),
      Easy(FALSE, <<[len3 |-> FALSE, conf |-> 99]>>),
      Easy(FALSE, <<Hit(50)>>), Easy(FALSE, <<Hit(51)>>),
      Easy(FALSE, <<Hit(90), Hit(20)>>),
      Easy(FALSE, <<Hit(40), [len3 |-> FALSE, conf |-> 99]>>) }

Mimes == {"image/png", "application/pdf", "text/plain"}

ImageFiles ==
    [ext : {"png", "PNG", "txt"}, mime : Mimes, loadable : BOOLEAN, reader : BOOLEAN,
     easy : EasyOutcomes, image : Images, openable : {FALSE}, npages : {0}]

PdfFiles ==
    [ext : {"pdf"}, mime : {"application/pdf"}, loadable : {TRUE}, reader : {FALSE},
     easy : {NoEasy}, image : {NoImage}, openable : BOOLEAN, npages : 0..MaxPageCount]
    \cup
    [ext : {"PDF", "pdf"}, mime : Mimes, loadable : {TRUE}, reader : {FALSE},
     easy : {NoEasy}, image : {NoImage}, openable : {TRUE}, npages : {1}]

Files == ImageFiles \cup PdfFiles

NoFile == [ext |-> "", mime |-> "", loadable |-> FALSE, reader |-> FALSE, easy |-> NoEasy,
           image |-> NoImage, openable |-> FALSE, npages |-> 0]

\* what the two page loops read of one page
Page(dr, dl, rr, im) ==
    [direct_raises |-> dr, dlen |-> dl, raster_raises |-> rr, image |-> im]

PdfPages ==
    { Page(FALSE, 51, FALSE, NoImage),
      Page(TRUE, 0, FALSE, NoImage),
      Page(FALSE, 0, TRUE, NoImage) }
    \cup { Page(FALSE, 50, FALSE, im) : im \in PageImages }

\* ----------------------------------------------------- actions of the OCR layer
IsPdfPath(f) == Lower(f.ext) = "pdf"

\* DocumentProcessor.ocr on a file that is not a supported PDF
OcrCall ==
    /\ result = NoResult /\ pdf = Idle
    /\ ~(_is_supported(file) /\ IsPdfPath(file))
    /\ result' = [fn |-> "ocr"] @@ ocr(file)
    /\ UNCHANGED <<file, pdf, ocrOthers>>

\* DocumentProcessor.ocr -> _ocr_pdf: fitz.open and the loop set-up
PdfOpen ==
    /\ result = NoResult /\ pdf = Idle
    /\ _is_supported(file) /\ IsPdfPath(file)
    /\ IF file.openable
       THEN pdf' = PdfStart(file) /\ result' = result
       ELSE pdf' = [pc |-> "done"] /\ result' = [fn |-> "ocr"] @@ PdfFailure
    /\ UNCHANGED <<file, ocrOthers>>

\* one iteration of for page_num in range(max_pages)
PdfPage ==
    /\ pdf.pc = "loop" /\ pdf.fn = "_ocr_pdf"
    /\ pdf.page_num < max_pages(file)
    /\ \E p \in PdfPages :
          pdf' = [PdfPageStep(pdf, p) EXCEPT
                    !.long = IF ~p.direct_raises /\ p.dlen > 50
                             THEN pdf.long \cup {pdf.page_num + 1} ELSE pdf.long]
    /\ result' = result
    /\ UNCHANGED <<file, ocrOthers>>

\* doc.close() and the return of _ocr_pdf
PdfFinish ==
    /\ pdf.pc = "loop" /\ pdf.fn = "_ocr_pdf"
    /\ pdf.page_num = max_pages(file)
    /\ pdf' = [pdf EXCEPT !.pc = "done"]
    /\ result' = [fn |-> "ocr"] @@ PdfResult(pdf, file)
    /\ UNCHANGED <<file, ocrOthers>>

SvcReturned(r) == [fn |-> "extract_text", kind |-> "returned", text |-> r[1], confidence |-> r[2]]

\* OCRService.extract_text on an image or a text file
SvcCall ==
    /\ result = NoResult /\ pdf = Idle
    /\ file.mime # "application/pdf"
    /\ result' = SvcReturned(extract_text(file))
    /\ UNCHANGED <<file, pdf, ocrOthers>>

\* OCRService.extract_text -> extract_text_from_pdf: fitz.open
SvcPdfOpen ==
    /\ result = NoResult /\ pdf = Idle
    /\ file.mime = "application/pdf"
    /\ IF file.openable
       THEN pdf' = SvcStart /\ result' = result
       ELSE pdf' = [pc |-> "done"] /\ result' = SvcReturned(<<Empty, 0>>)
    /\ UNCHANGED <<file, ocrOthers>>

\* one iteration of for page_num in range(len(doc))
SvcPdfPage ==
    /\ pdf.pc = "loop" /\ pdf.fn = "extract_text_from_pdf"
    /\ pdf.page_count < file.npages
    /\ \E p \in PdfPages :
          IF ~p.direct_raises /\ ~(p.dlen = 0 /\ p.raster_raises)
          THEN pdf' = SvcPageStep(pdf, p) /\ result' = result
          ELSE pdf' = [pdf EXCEPT !.pc = "done"] /\ result' = SvcReturned(<<Empty, 0>>)
    /\ UNCHANGED <<file, ocrOthers>>

SvcPdfFinish ==
    /\ pdf.pc = "loop" /\ pdf.fn = "extract_text_from_pdf"
    /\ pdf.page_count = file.npages
    /\ pdf' = [pdf EXCEPT !.pc = "done"]
    /\ result' = SvcReturned(SvcResult(pdf))
    /\ UNCHANGED <<file, ocrOthers>>

\* ------------------------------------------------------ the documents table
DocIds == 1..MaxDocs
\* a request occupies at most one slot, so MaxRequests slots never run out
ProcIds == 1..MaxRequests

\* a nullable column holds Null or Some(value)
Null == <<>>
Some(v) == <<v>>

\* dict.get(key, default)
Get(d, key, default) == IF key \in DOMAIN d THEN d[key] ELSE default

\* the columns of Document that processing touches; origin records the
\* endpoint that created the row ("v1" for api/v1, "routers" for routers)
NewDocument(f, via) ==
    [processing_status |-> "uploaded", extracted_text |-> Null, ocr_confidence |-> Null,
     document_type |-> "generic", ai_analysis |-> Null, key_value_pairs |-> Null,
     entities |-> Null, processed_at |-> FALSE, file_path |-> f, origin |-> via]

Absent == [processing_status |-> "absent"]
Deleted == [processing_status |-> "deleted"]

IsRow(d) == docs[d].processing_status \notin {"absent", "deleted"}

\* session.commit() of an object loaded as `loaded` and now holding `obj`:
\* an UPDATE of the attributes that changed; nothing if the row is gone
Commit(row, loaded, obj) ==
    IF row.processing_status \in {"absent", "deleted"} THEN row
    ELSE [c \in DOMAIN row |-> IF obj[c] # loaded[c] THEN obj[c] ELSE row[c]]

\* the files uploaded in the lifecycle model, with the pages of the PDFs
DocFile(e, l, im, o, pages) ==
    [ext |-> e,
     mime |-> IF e = "pdf" THEN "application/pdf"
              ELSE IF e = "txt" THEN "text/plain" ELSE "image/png",
     loadable |-> l, reader |-> FALSE, easy |-> NoEasy, image |-> im,
     openable |-> o, npages |-> Len(pages), pages |-> pages]

DocFiles ==
    { DocFile("txt", TRUE, NoImage, FALSE, <<>>),
      DocFile("png", TRUE, Img("ok", T("c", 40), FALSE, <<Word(FALSE, 96), Word(FALSE, 78)>>), FALSE, <<>>),
      DocFile("png", TRUE, Img("ok", T("c", 10), FALSE, <<Word(FALSE, 60)>>), FALSE, <<>>),
      DocFile("png", TRUE, Img("ok", T("c", 9), FALSE, <<Word(FALSE, 60)>>), FALSE, <<>>),
      DocFile("png", TRUE, Img("notfound", Empty, FALSE, <<>>), FALSE, <<>>),
      DocFile("pdf", TRUE, NoImage, FALSE, <<>>) }

RECURSIVE PdfLoop(_, _)
PdfLoop(l, pages) ==
    IF pages = <<>> THEN l ELSE PdfLoop(PdfPageStep(l, Head(pages)), Tail(pages))

\* DocumentProcessor.ocr as one call, PDFs included
ocr_whole(f) ==
    IF _is_supported(f) /\ IsPdfPath(f)
    THEN IF f.openable
         THEN PdfResult(PdfLoop(PdfStart(f), SubSeq(f.pages, 1, max_pages(f))), f)
         ELSE PdfFailure
    ELSE ocr(f)

\* --------------------------------------------------------------- ai_analyze
\* The regex and keyword results are kept as uninterpreted terms of the text.
KV(t) == [kind |-> "key_value_pairs", of |-> t]
Entities(t) == [kind |-> "entities", of |-> t]
EmptyDict == [kind |-> "dict", of |-> Empty]
EmptyList == [kind |-> "list", of |-> Empty]

\* what the POST to Ollama's /api/generate can come to
OllamaOutcomes == {"response", "empty_response", "connection_error", "timeout", "http_error"}

\* AIService._make_ollama_request: the response text, or None after any error
\* (an empty response text is the empty string)
_make_ollama_request(o) == IF o = "response" THEN "response" ELSE "None"

\* AIService._fallback_analysis: the rule-based type of the text, first rule first
_fallback_analysis(t) ==
    [summary |-> "fallback summary",
     document_type |->
        IF \E k \in {"invoice", "bill", "amount due"} : Occurs(k, lower(t)) THEN "invoice"
        ELSE IF \E k \in {"contract", "agreement", "terms"} : Occurs(k, lower(t)) THEN "contract"
        ELSE IF \E k \in {"report", "analysis", "findings"} : Occurs(k, lower(t)) THEN "report"
        ELSE "unknown",
     confidence |-> 60,
     ai_model |-> "fallback"]

\* AIService.analyze_document: the structured Ollama answer, or the fallback
\* analysis when there is no answer; it never raises and never returns None
analyze_document(t, o) ==
    IF _make_ollama_request(o) = "response"
    THEN [summary |-> "response", document_type |-> "document", confidence |-> 90,
          ai_model |-> "phi3"]
    ELSE _fallback_analysis(t)

\* DocumentProcessor.ai_analyze on a text t whose regex results are kv and
\* ents: the local results, overridden by what analyze_document returned
ai_analyze(t, kv, ents, o) ==
    LET local == classify_document(t)
        analysis == analyze_document(t, o)
        merged == "document_type" \in DOMAIN analysis
    IN  [summary |-> analysis.summary,
         classification |-> IF merged THEN analysis.document_type ELSE local.type,
         classification_confidence |->
            IF merged THEN Get(analysis, "confidence", local.confidence) ELSE local.confidence,
         key_value_pairs |-> kv,
         entities |-> ents,
         model_used |-> "phi3",
         ai_analysis |-> Some(analysis),
         ai_service_available |-> TRUE]

\* the analysis of a document's text in the lifecycle, where a text carries
\* no keywords; up: Ollama answered
DocAnalysis(t, up) ==
    ai_analyze({}, KV(t), Entities(t), IF up THEN "response" ELSE "connection_error")

NotAnalysed == [called |-> FALSE]

AnalyzeIdle == ai_result = NotAnalysed

\* ai_analyze(text) while Ollama behaves as o
Analyze ==
    /\ cls = NoClass /\ ai_result = NotAnalysed
    /\ \E o \in OllamaOutcomes :
          ai_result' = [called |-> TRUE, ollama |-> o,
                       result |-> ai_analyze(text, KV(text), Entities(text), o)]
    /\ UNCHANGED <<text, cls, ocrVars, docVars, jobVars, kvVars, shareVars, tagVars, authVars,
                   restVars>>

\* ------------------------------------------------- requests and tasks in flight
NoProc == [kind |-> "idle"]

DocsIdle ==
    /\ docs = [d \in DocIds |-> Absent]
    /\ procs = [p \in ProcIds |-> NoProc]
    /\ accepted = 0

\* the server accepts one more request and runs it in the first free slot
Accept(p) ==
    /\ accepted < MaxRequests
    /\ accepted' = accepted + 1
    /\ procs[p] = NoProc
    /\ \A q \in ProcIds : q < p => procs[q] # NoProc

\* no request for d is still being answered: the client has the document id
Known(d) ==
    /\ IsRow(d)
    /\ \A p \in ProcIds : ~(procs[p].kind \in {"upload"} /\ procs[p].doc = d)

\* ---- api/v1/documents.py
\* POST /upload: create the row, schedule process_document_background, return
UploadV1 ==
    \E d \in DocIds, p \in ProcIds, f \in DocFiles :
        /\ docs[d] = Absent
        /\ \A e \in DocIds : e < d => docs[e] # Absent
        /\ Accept(p)
        /\ docs' = [docs EXCEPT ![d] = NewDocument(f, "v1")]
        /\ procs' = [procs EXCEPT ![p] = [kind |-> "background", doc |-> d, pc |-> "start"]]
        /\ UNCHANGED docOthers

\* POST /{id}/process: mark processing, schedule process_document_background
ProcessV1 ==
    \E d \in DocIds, p \in ProcIds :
        /\ Known(d)
        /\ Accept(p)
        /\ docs' = [docs EXCEPT ![d].processing_status = "processing"]
        /\ procs' = [procs EXCEPT ![p] = [kind |-> "background", doc |-> d, pc |-> "start"]]
        /\ UNCHANGED docOthers

\* DELETE /{id} of either router
DeleteDocument ==
    \E d \in DocIds :
        /\ Known(d)
        /\ accepted < MaxRequests
        /\ accepted' = accepted + 1
        /\ docs' = [docs EXCEPT ![d] = Deleted]
        /\ UNCHANGED <<procs, docOthers>>

\* process_document_background up to the first await: the query and the early
\* return for a missing document
BgStart ==
    \E p \in ProcIds :
        /\ procs[p].kind = "background" /\ procs[p].pc = "start"
        /\ IF IsRow(procs[p].doc)
           THEN procs' = [procs EXCEPT ![p] = [kind |-> "background", doc |-> procs[p].doc,
                                               pc |-> "ocr", loaded |-> docs[procs[p].doc]]]
           ELSE procs' = [procs EXCEPT ![p] = NoProc]
        /\ UNCHANGED <<docs, accepted, docOthers>>

BgFailed_Unmarked(row) == row

\* the except branch: re-query the document, mark it failed, commit
BgFailed(row) ==
    IF row.processing_status \in {"absent", "deleted"} THEN row
    ELSE [row EXCEPT !.processing_status = "failed"]

\* the object after the short-text branch
BgShort(loaded, r) ==
    [loaded EXCEPT !.extracted_text = Some(Get(r, "text", Empty)),
                   !.ocr_confidence = Some(Get(r, "confidence", 0)),
                   !.processing_status = "completed",
                   !.processed_at = TRUE]

\* not ocr_result.get("text") or len(ocr_result["text"].strip()) < 10
BgIsShort(r) == Get(r, "text", Empty).head = "" \/ r.text.n < 10

\* ocr_async returned or raised
BgAfterOcr ==
    \E p \in ProcIds :
        /\ procs[p].kind = "background" /\ procs[p].pc = "ocr"
        /\ \E r \in {ocr_whole(procs[p].loaded.file_path)} :
             LET d == procs[p].doc
             IN  IF r.kind = "raised"
                 THEN /\ docs' = [docs EXCEPT ![d] = BgFailed(docs[d])]
                      /\ procs' = [procs EXCEPT ![p] = NoProc]
                 ELSE IF BgIsShort(r)
                 THEN /\ \E obj \in {BgShort(procs[p].loaded, r)} :
                            docs' = [docs EXCEPT ![d] = Commit(docs[d], procs[p].loaded, obj)]
                      /\ procs' = [procs EXCEPT ![p] = NoProc]
                 ELSE /\ docs' = docs
                      /\ procs' = [procs EXCEPT ![p] = [kind |-> "background", doc |-> d,
                                                          pc |-> "ai",
                                                          loaded |-> procs[p].loaded,
                                                          ocr_result |-> r]]
        /\ UNCHANGED <<accepted, docOthers>>

\* the object after the analysis branch
BgAnalysed(loaded, r, ai) ==
    [loaded EXCEPT !.extracted_text = Some(r.text),
                   !.ocr_confidence = Some(r.confidence),
                   !.processing_status = "completed",
                   !.processed_at = TRUE,
                   !.document_type =
                        IF Get(ai, "document_type", "") = "" THEN loaded.document_type
                        ELSE IF ai.document_type \in {"invoice", "contract", "form", "receipt",
                                                      "letter", "report", "generic"}
                        THEN ai.document_type ELSE "generic",
                   !.ai_analysis = Some(ai),
                   !.key_value_pairs = Some(Get(ai, "extracted_fields", EmptyDict)),
                   !.entities = Some(Get(ai, "entities", EmptyList))]

\* ai_analyze_async returned (it never raises)
BgAfterAi ==
    \E p \in ProcIds, up \in BOOLEAN :
        /\ procs[p].kind = "background" /\ procs[p].pc = "ai"
        /\ LET d == procs[p].doc
               r == procs[p].ocr_result
           IN  \E ai \in {DocAnalysis(r.text, up)} :
               \E obj \in {BgAnalysed(procs[p].loaded, r, ai)} :
                   docs' = [docs EXCEPT ![d] = Commit(docs[d], procs[p].loaded, obj)]
        /\ procs' = [procs EXCEPT ![p] = NoProc]
        /\ UNCHANGED <<accepted, docOthers>>

\* ---- routers/documents.py
UploadOcrFields_MockConfidence(r) ==
    IF r.kind = "raised" THEN [extracted_text |-> Bracket, ocr_confidence |-> 95]
    ELSE LET t == Get(r, "text", Empty)
         IN  [extracted_text |-> IF t.head # "" /\ t.n > 10 THEN t ELSE Bracket,
              ocr_confidence |-> 95]

\* what the OCR guard of upload_document leaves on the document
UploadOcrFields(r) ==
    IF r.kind = "raised" THEN [extracted_text |-> Bracket, ocr_confidence |-> 0]
    ELSE LET t == Get(r, "text", Empty)
         IN  IF t.head # "" /\ t.n > 10
             THEN [extracted_text |-> t, ocr_confidence |-> 95]
             ELSE [extracted_text |-> Bracket, ocr_confidence |-> 0]

Skipped == [summary |-> "no text available", status |-> "skipped"]

\* what the analysis guard of upload_document leaves on the document
UploadAiFields(et, up) ==
    IF et # Null /\ et[1].head # "" /\ et[1].head # "["
    THEN [ai_analysis |-> DocAnalysis(et[1], up), key_value_pairs |-> KV(et[1]),
          entities |-> Entities(et[1])]
    ELSE [ai_analysis |-> Skipped, key_value_pairs |-> EmptyList, entities |-> EmptyList]

\* POST /upload up to the first commit: the row is created as uploaded
UploadCreate ==
    \E d \in DocIds, p \in ProcIds, f \in DocFiles :
        /\ docs[d] = Absent
        /\ \A e \in DocIds : e < d => docs[e] # Absent
        /\ Accept(p)
        /\ docs' = [docs EXCEPT ![d] = NewDocument(f, "routers")]
        /\ procs' = [procs EXCEPT ![p] = [kind |-> "upload", doc |-> d, pc |-> "processing"]]
        /\ UNCHANGED docOthers

\* request p is of this kind and at this point of its handler
At(p, kind, pc) == procs[p].kind = kind /\ procs[p].pc = pc

\* the row of the document that request p works on
Row(p) == docs[procs[p].doc]

\* one commit of request p: the row as the handler's assignments leave it
Step(p, to, row) ==
    /\ IF IsRow(procs[p].doc)
       THEN /\ docs' = [docs EXCEPT ![procs[p].doc] = row]
            /\ procs' = [procs EXCEPT ![p].pc = to]
       ELSE /\ docs' = docs
            /\ procs' = [procs EXCEPT ![p] = NoProc]
    /\ UNCHANGED <<accepted, docOthers>>

SetStatus(row, st) == [row EXCEPT !.processing_status = st]

UploadProcessing ==
    \E p \in ProcIds :
        At(p, "upload", "processing") /\ Step(p, "ocr", SetStatus(Row(p), "processing"))

UploadOcr ==
    \E p \in ProcIds :
        /\ At(p, "upload", "ocr")
        /\ LET fs == UploadOcrFields(ocr_whole(Row(p).file_path))
           IN  Step(p, "ai_processing",
                    [Row(p) EXCEPT !.extracted_text = Some(fs.extracted_text),
                                   !.ocr_confidence = Some(fs.ocr_confidence),
                                   !.processing_status = "ocr_complete"])

UploadAiProcessing ==
    \E p \in ProcIds :
        At(p, "upload", "ai_processing") /\ Step(p, "ai", SetStatus(Row(p), "ai_processing"))

UploadAi ==
    \E p \in ProcIds, up \in BOOLEAN :
        /\ At(p, "upload", "ai")
        /\ LET fs == UploadAiFields(Row(p).extracted_text, up)
           IN  Step(p, "return",
                    [Row(p) EXCEPT !.ai_analysis = Some(fs.ai_analysis),
                                   !.key_value_pairs = Some(fs.key_value_pairs),
                                   !.entities = Some(fs.entities),
                                   !.processing_status = "completed",
                                   !.processed_at = TRUE])

\* the response is sent: from here on the client knows the document id
UploadReturn ==
    \E p \in ProcIds :
        /\ procs[p].kind = "upload" /\ procs[p].pc = "return"
        /\ procs' = [procs EXCEPT ![p] = NoProc]
        /\ UNCHANGED <<docs, accepted, docOthers>>

\* POST /{id}/retry up to the first commit
RetryStart ==
    \E d \in DocIds, p \in ProcIds :
        /\ Known(d)
        /\ Accept(p)
        /\ docs' = [docs EXCEPT ![d].processing_status = "uploaded"]
        /\ procs' = [procs EXCEPT ![p] = [kind |-> "retry", doc |-> d, pc |-> "processing"]]
        /\ UNCHANGED docOthers

RetryProcessing ==
    \E p \in ProcIds :
        At(p, "retry", "processing") /\ Step(p, "ocr", SetStatus(Row(p), "processing"))

\* ocr_text returned or raised; a raise ends the request in the except branch
RetryOcr ==
    \E p \in ProcIds :
        /\ procs[p].kind = "retry" /\ procs[p].pc = "ocr"
        /\ LET d == procs[p].doc
               r == IF IsRow(d) THEN ocr_whole(docs[d].file_path) ELSE Raised("NoRow")
           IN  IF ~IsRow(d)
               THEN docs' = docs /\ procs' = [procs EXCEPT ![p] = NoProc]
               ELSE IF r.kind = "raised"
               THEN /\ docs' = [docs EXCEPT ![d] = SetStatus(docs[d], "failed")]
                    /\ procs' = [procs EXCEPT ![p] = NoProc]
               ELSE /\ docs' = [docs EXCEPT ![d].extracted_text = Some(Get(r, "text", Empty)),
                                            ![d].processing_status = "ocr_complete"]
                    /\ procs' = [procs EXCEPT ![p] = [kind |-> "retry", doc |-> d,
                                                        pc |-> "ai_processing",
                                                        text |-> Get(r, "text", Empty)]]
        /\ UNCHANGED <<accepted, docOthers>>

RetryAiProcessing ==
    \E p \in ProcIds :
        At(p, "retry", "ai_processing") /\ Step(p, "ai", SetStatus(Row(p), "ai_processing"))

RetryAi ==
    \E p \in ProcIds, up \in BOOLEAN :
        /\ procs[p].kind = "retry" /\ procs[p].pc = "ai"
        /\ LET d == procs[p].doc
               t == procs[p].text
           IN  docs' = IF IsRow(d)
                       THEN [docs EXCEPT ![d].ai_analysis = Some(DocAnalysis(t, up)),
                                         ![d].key_value_pairs = Some(KV(t)),
                                         ![d].entities = Some(Entities(t)),
                                         ![d].processing_status = "completed",
                                         ![d].processed_at = TRUE]
                       ELSE docs
        /\ procs' = [procs EXCEPT ![p] = NoProc]
        /\ UNCHANGED <<accepted, docOthers>>

\* ---- workers/document_processor.py
JobIds == 1..MaxJobs
ModelIds == {"m1"}

AbsentJob == [status |-> "absent"]
AbsentModel == [usage_count |-> -1]

\* a row of processing_jobs as it is queued
NewJob(d, m) ==
    [status |-> "queued", document_id |-> d, ai_model_id |-> m, result_data |-> Null,
     error_message |-> Null, completed_at |-> FALSE]

Queued == [pc |-> "queued"]
Done == [pc |-> "done"]

JobsIdle ==
    /\ jobs = [j \in JobIds |-> AbsentJob]
    /\ ai_models = [m \in ModelIds |-> AbsentModel]
    /\ workers = [j \in JobIds |-> Done]

\* the outcomes of AIService.process_document as its caller reads them: a
\* dict with success, a dict without it (and maybe an error), or an exception
Success == [kind |-> "returned", success |-> TRUE, result |-> "result"]
Unsuccessful == [kind |-> "returned", success |-> FALSE, error |-> "error"]
NoError == [kind |-> "returned"]
process_document_outcomes == {Success, Unsuccessful, NoError, Raised("Exception")}

\* the except branch of process_document_task
JobRaised(job, e) ==
    [job EXCEPT !.status = "failed", !.error_message = Some(e)]

\* the branch on result.get('success')
JobResult_IgnoresSuccess(job, r) ==
    [job EXCEPT !.status = "completed", !.result_data = Some(r), !.completed_at = TRUE]

JobResult(job, r) ==
    IF Get(r, "success", FALSE)
    THEN [job EXCEPT !.status = "completed", !.result_data = Some(r), !.completed_at = TRUE]
    ELSE [job EXCEPT !.status = "failed",
                     !.error_message = Some(Get(r, "error", "Unknown error"))]

\* the job query, the early return, and the first commit
TaskStart ==
    \E j \in JobIds :
        /\ workers[j].pc = "queued"
        /\ IF jobs[j] = AbsentJob
           THEN jobs' = jobs /\ workers' = [workers EXCEPT ![j] = Done]
           ELSE /\ jobs' = [jobs EXCEPT ![j].status = "processing"]
                /\ workers' = [workers EXCEPT ![j] = [pc |-> "lookup"]]
        /\ UNCHANGED <<docs, ai_models, jobOthers>>

HasText(row) == row.extracted_text # Null /\ row.extracted_text[1].head # ""

\* the document and model queries, and the OCR of a document without text;
\* usage is the usage_count the session holds, Null once a commit expired it
TaskLookup ==
    \E j \in JobIds :
        /\ workers[j].pc = "lookup"
        /\ LET d == jobs[j].document_id
               m == jobs[j].ai_model_id
           IN  IF ~IsRow(d) \/ ai_models[m] = AbsentModel
               THEN /\ jobs' = [jobs EXCEPT ![j].status = "failed",
                                            ![j].error_message = Some("Document or AI model not found")]
                    /\ workers' = [workers EXCEPT ![j] = Done]
                    /\ docs' = docs
               ELSE IF HasText(docs[d])
               THEN /\ workers' = [workers EXCEPT ![j] =
                            [pc |-> "progress", usage |-> Some(ai_models[m].usage_count)]]
                    /\ UNCHANGED <<jobs, docs>>
               ELSE LET r == extract_text(docs[d].file_path)
                    IN  /\ docs' = [docs EXCEPT ![d].extracted_text = Some(r[1]),
                                                ![d].ocr_confidence = Some(r[2]),
                                                ![d].processing_status = "completed"]
                        /\ workers' = [workers EXCEPT ![j] = [pc |-> "progress", usage |-> Null]]
                        /\ jobs' = jobs
        /\ UNCHANGED <<ai_models, jobOthers>>

\* self.update_state(state='PROGRESS'), which may raise
TaskProgress ==
    \E j \in JobIds, raises \in BOOLEAN :
        /\ workers[j].pc = "progress"
        /\ IF raises
           THEN /\ jobs' = [jobs EXCEPT ![j] = JobRaised(jobs[j], "update_state")]
                /\ workers' = [workers EXCEPT ![j] = [pc |-> "done", reported |-> NoResult]]
           ELSE /\ jobs' = jobs
                /\ workers' = [workers EXCEPT ![j] = [pc |-> "ai", usage |-> workers[j].usage]]
        /\ UNCHANGED <<docs, ai_models, jobOthers>>

\* AIService.process_document returned or raised, up to the commit
TaskAi ==
    \E j \in JobIds, r \in process_document_outcomes :
        /\ workers[j].pc = "ai"
        /\ LET m == jobs[j].ai_model_id
               usage == IF workers[j].usage = Null THEN ai_models[m].usage_count
                        ELSE workers[j].usage[1]
           IN  IF r.kind = "raised"
               THEN /\ jobs' = [jobs EXCEPT ![j] = JobRaised(jobs[j], r.error)]
                    /\ workers' = [workers EXCEPT ![j] = [pc |-> "done", reported |-> r]]
                    /\ ai_models' = ai_models
               ELSE /\ jobs' = [jobs EXCEPT ![j] = JobResult(jobs[j], r)]
                    /\ workers' = [workers EXCEPT ![j] = [pc |-> "success", reported |-> r]]
                    /\ ai_models' = IF Get(r, "success", FALSE)
                                    THEN [ai_models EXCEPT ![m].usage_count = usage + 1]
                                    ELSE ai_models
        /\ UNCHANGED <<docs, jobOthers>>

\* self.update_state(state='SUCCESS'), which may raise
TaskSuccess ==
    \E j \in JobIds, raises \in BOOLEAN :
        /\ workers[j].pc = "success"
        /\ jobs' = IF raises THEN [jobs EXCEPT ![j] = JobRaised(jobs[j], "update_state")]
                   ELSE jobs
        /\ workers' = [workers EXCEPT ![j] = [pc |-> "done", reported |-> workers[j].reported,
                                              raised |-> raises]]
        /\ UNCHANGED <<docs, ai_models, jobOthers>>

\* the documents a job may name: deleted, without text, with text
JobFile == DocFile("png", TRUE, Img("ok", T("c", 40), FALSE, <<Word(FALSE, 96), Word(FALSE, 78)>>), FALSE, <<>>)

JobDocs ==
    { Deleted, NewDocument(JobFile, "v1"),
      [NewDocument(JobFile, "v1") EXCEPT !.extracted_text = Some(T("c", 40)),
                                         !.ocr_confidence = Some(87),
                                         !.processing_status = "completed"] }

\* ------------------------------------------------- extract_key_value_pairs
\* self.field_patterns in dictionary order; a pattern is named by its field
\* and its place in the field's list
field_patterns ==
    << [field |-> "invoice_number", patterns |-> 3],
       [field |-> "date", patterns |-> 3],
       [field |-> "amount", patterns |-> 3],
       [field |-> "email", patterns |-> 1],
       [field |-> "phone", patterns |-> 2] >>

Fields == {field_patterns[i].field : i \in DOMAIN field_patterns}

PatternCount(field) ==
    (CHOOSE e \in {field_patterns[i] : i \in DOMAIN field_patterns} : e.field = field).patterns

\* the lexical items the checked texts are made of, and for each the patterns
\* that match inside it with the value re.findall yields (the group, or the
\* whole match for the group-less email pattern)
Lexicon ==
    { <<"Invoice #A-12", "invoice_number", 1, "A-12">>,
      <<"Invoice #A-12", "invoice_number", 2, "oice">>,
      <<"inv 77", "invoice_number", 2, "77">>,
      <<"Bill #B9", "invoice_number", 3, "B9">>,
      <<"Date: 1/2/2024", "date", 1, "1/2/2024">>,
      <<"Date: 1/2/2024", "date", 2, "1/2/2024">>,
      <<"3/4/25", "date", 2, "3/4/25">>,
      <<"2024-01-15", "date", 2, "24-01-15">>,
      <<"2024-01-15", "date", 3, "2024-01-15">>,
      <<"Total: $1,200.50", "amount", 1, "1,200.50">>,
      <<"Total: $1,200.50", "amount", 3, "1,200.50">>,
      <<"amount 40", "amount", 2, "40">>,
      <<"$7", "amount", 3, "7">>,
      <<"a@b.co", "email", 1, "a@b.co">>,
      <<"555-123-4567", "phone", 1, "555-123-4567">>,
      <<"(555) 123-4567", "phone", 2, "(555) 123-4567">> }

Items == {e[1] : e \in Lexicon} \cup {"lorem"}

\* '@' in value
HasAt == {"a@b.co"}
\* re.match(r'^\$?[\d,]+\.?\d*$', value)
NumericValues == {"1,200.50", "40", "7", "77"}
\* re.match(r'^\d{1,2}[/\-]\d{1,2}[/\-]\d{2,4}$', value)
DmyValues == {"1/2/2024", "3/4/25", "24-01-15"}

\* re.findall(pattern, text, re.IGNORECASE): the matches from left to right
RECURSIVE findall(_, _, _)
findall(field, k, toks) ==
    IF toks = <<>> THEN <<>>
    ELSE LET here == {e \in Lexicon : e[1] = Head(toks) /\ e[2] = field /\ e[3] = k}
         IN  (IF here = {} THEN <<>> ELSE <<(CHOOSE e \in here : TRUE)[4]>>)
             \o findall(field, k, Tail(toks))

BaseConfidence == 70
EmailBoost == 20
AmountBoost == 15
DateBoost == 10

_calculate_field_confidence(field_name, value) ==
    LET boosted ==
            IF field_name = "email" /\ value \in HasAt THEN BaseConfidence + EmailBoost
            ELSE IF field_name = "amount" /\ value \in NumericValues
            THEN BaseConfidence + AmountBoost
            ELSE IF field_name = "date" /\ value \in DmyValues THEN BaseConfidence + DateBoost
            ELSE BaseConfidence
    IN  Min(boosted, ONE)

Entry(field, value) ==
    [value |-> value, confidence |-> _calculate_field_confidence(field, value),
     source |-> "regex"]

\* the loop over one field's patterns without its break: the last pattern
\* that matches wins
RECURSIVE FieldLoop_NoBreak(_, _, _, _)
FieldLoop_NoBreak(field, k, toks, found) ==
    IF k > PatternCount(field) THEN found
    ELSE LET matches == findall(field, k, toks)
         IN  FieldLoop_NoBreak(field, k + 1, toks,
                               IF matches # <<>> THEN <<Entry(field, matches[1])>> ELSE found)

\* the loop over one field's patterns from pattern k on: <<>> or the entry
RECURSIVE FieldLoop(_, _, _, _)
FieldLoop(field, k, toks, found) ==
    IF k > PatternCount(field) THEN found
    ELSE LET matches == findall(field, k, toks)
         IN  IF matches # <<>> THEN <<Entry(field, matches[1])>>
             ELSE FieldLoop(field, k + 1, toks, found)

\* the returned dict: a function on the fields that got an entry
extract_key_value_pairs(toks) ==
    LET got == [f \in Fields |-> FieldLoop(f, 1, toks, <<>>)]
    IN  [f \in {g \in Fields : got[g] # <<>>} |-> got[f][1]]

NotExtracted == [called |-> FALSE]

KvIdle == tokens = <<>> /\ extracted = NotExtracted

\* the text grows by one item
AddItem ==
    /\ extracted = NotExtracted
    /\ Len(tokens) < MaxTokens
    /\ \E it \in Items : tokens' = Append(tokens, it)
    /\ UNCHANGED <<extracted, kvOthers>>

Extract ==
    /\ extracted = NotExtracted
    /\ extracted' = [called |-> TRUE, fields |-> extract_key_value_pairs(tokens)]
    /\ UNCHANGED <<tokens, kvOthers>>

\* --------------------------------------------------------- routers/sharing.py
\* Time is the naive UTC clock of datetime.utcnow(), counted in ticks.  A share
\* token (and an API key) is a fresh random string: the token of share s is
\* modelled by s itself, so a token of a share not yet created is unknown.
\* The webhook and export columns only feed print statements and are left out.
Users == {"A", "B"}
AccessLevels == {"view", "comment", "edit"}
ShareIds == 1..MaxShares
Times == 0..MaxTime

\* a processed Document of user u, with the columns the sharing views read
StoredDocument(u) ==
    [processing_status |-> "completed", user_id |-> u, original_filename |-> "f.pdf",
     file_size |-> 1, mime_type |-> "application/pdf", created_at |-> 0,
     extracted_text |-> Some("text"), ocr_confidence |-> Some(90),
     document_type |-> "invoice", ai_analysis |-> Some("analysis"),
     key_value_pairs |-> Some("pairs"), entities |-> Some("entities")]

AbsentShare == [id |-> 0]
DeletedShare == [id |-> 0 - 1]
IsShare(s) == document_shares[s].id = s

\* DocumentShareCreate bodies: access level, expiry, API switch, permissions
ShareCreate(level, expires, api, permissions) ==
    [access_level |-> level, expires_at |-> expires, message |-> Null,
     api_endpoint_enabled |-> api, api_permissions |-> permissions]

ShareRequests ==
    { ShareCreate("view", Null, FALSE, Null),
      ShareCreate("edit", Some(0), TRUE, Null),
      ShareCreate("view", Some(0), TRUE, Some([full_access |-> TRUE])),
      ShareCreate("comment", Null, TRUE, Some([read |-> FALSE])),
      ShareCreate("view", Null, TRUE, Some([read |-> TRUE, full_access |-> FALSE])) }

\* DocumentShareUpdate bodies; a field left out is None
ShareUpdate(level, active) == [access_level |-> level, is_active |-> active]

ShareUpdates ==
    { ShareUpdate(Null, Some(TRUE)), ShareUpdate(Null, Some(FALSE)) }

NoResponse == [endpoint |-> "none", key |-> 0, status |-> 0, body |-> [detail |-> "none"]]
Response(e, k, st, b) == [endpoint |-> e, key |-> k, status |-> st, body |-> b]
HTTPException(e, k, st, d) == Response(e, k, st, [detail |-> d])

ShareIdle ==
    /\ document_shares = [s \in ShareIds |-> AbsentShare]
    /\ now = 0
    /\ response = NoResponse

\* Query.first(): the row found, 0 for None (the filters match one row at most)
first(S) == IF S = {} THEN 0 ELSE CHOOSE s \in S : \A t \in S : s <= t

OwnDocument_AnyUser(u, d) == IsRow(d)

\* db.query(Document).filter(id == d, user_id == u).first()
OwnDocument(u, d) == IsRow(d) /\ docs[d].user_id = u
\* db.query(DocumentShare).filter(id == s, shared_by == u).first()
OwnShare(u, s) == IsShare(s) /\ document_shares[s].shared_by = u

FreeShare(s) ==
    document_shares[s] = AbsentShare /\ \A t \in 1..(s - 1) : document_shares[t] # AbsentShare

share_document(u, d, data) ==
    /\ IF OwnDocument(u, d)
       THEN \E s \in ShareIds :
              /\ FreeShare(s)
              /\ document_shares' = [document_shares EXCEPT ![s] =
                    [id |-> s, document_id |-> d, shared_by |-> u,
                     access_level |-> data.access_level, share_token |-> s,
                     expires_at |-> data.expires_at, message |-> data.message,
                     is_active |-> TRUE,
                     api_endpoint_enabled |-> data.api_endpoint_enabled,
                     api_key |-> IF data.api_endpoint_enabled THEN Some(s) ELSE Null,
                     api_permissions |-> data.api_permissions]]
              /\ response' = [endpoint |-> "share_document", user |-> u, key |-> d,
                               status |-> 200, body |-> [id |-> s]]
       ELSE /\ response' = [endpoint |-> "share_document", user |-> u, key |-> d,
                            status |-> 404,
                            body |-> [detail |-> "Document not found or access denied"]]
            /\ UNCHANGED document_shares
    /\ UNCHANGED <<docs, now, shareOthers>>

update_share(u, s, share_update) ==
    /\ IF OwnShare(u, s)
       THEN /\ document_shares' = [document_shares EXCEPT ![s] =
                  [@ EXCEPT !.access_level = IF share_update.access_level # Null
                                              THEN share_update.access_level[1] ELSE @,
                            !.is_active = IF share_update.is_active # Null
                                          THEN share_update.is_active[1] ELSE @]]
            /\ response' = Response("update_share", s, 200, [id |-> s])
       ELSE /\ response' = HTTPException("update_share", s, 404,
                                         "Share not found or access denied")
            /\ UNCHANGED document_shares
    /\ UNCHANGED <<docs, now, shareOthers>>

delete_share(u, s) ==
    /\ IF OwnShare(u, s)
       THEN /\ document_shares' = [document_shares EXCEPT ![s] = DeletedShare]
            /\ response' = Response("delete_share", s, 200,
                                    [message |-> "Share deleted successfully"])
       ELSE /\ response' = HTTPException("delete_share", s, 404,
                                         "Share not found or access denied")
            /\ UNCHANGED document_shares
    /\ UNCHANGED <<docs, now, shareOthers>>

revoke_share(u, s) ==
    /\ IF OwnShare(u, s)
       THEN /\ document_shares' = [document_shares EXCEPT ![s].is_active = FALSE]
            /\ response' = Response("revoke_share", s, 200,
                                    [message |-> "Share revoked successfully"])
       ELSE /\ response' = HTTPException("revoke_share", s, 404,
                                         "Share not found or access denied")
            /\ UNCHANGED document_shares
    /\ UNCHANGED <<docs, now, shareOthers>>

Expired_Never(share) == FALSE

\* share.expires_at and share.expires_at < datetime.utcnow()
Expired(share) == share.expires_at # Null /\ share.expires_at[1] < now

Metadata(document, share, d) ==
    [document_id |-> d, filename |-> document.original_filename,
     file_size |-> document.file_size, mime_type |-> document.mime_type,
     created_at |-> document.created_at, access_level |-> share.access_level,
     message |-> share.message]

\* response_data.update({...}) of both views
WithContent(data, document) ==
    [k \in DOMAIN data \union {"extracted_text", "ocr_confidence", "document_type",
                               "ai_analysis", "key_value_pairs", "entities"} |->
        IF k \in DOMAIN data THEN data[k] ELSE document[k]]

shared_response_data_Always(document, share, d) ==
    WithContent(Metadata(document, share, d), document)

\* the dict access_shared_document returns
shared_response_data(document, share, d) ==
    LET response_data == [k \in DOMAIN Metadata(document, share, d) \union {"shared_by"} |->
                            IF k = "shared_by" THEN "Anonymous"
                            ELSE Metadata(document, share, d)[k]]
    IN  IF share.access_level \in {"comment", "edit"}
        THEN WithContent(response_data, document) ELSE response_data

access_shared_document_Deactivates(share_token) ==
    LET s == first({t \in ShareIds : IsShare(t)
                       /\ document_shares[t].share_token = share_token
                       /\ document_shares[t].is_active})
        e == "access_shared_document"
    IN  /\ response' =
             IF s = 0 THEN HTTPException(e, share_token, 404, "Share not found or has expired")
             ELSE IF Expired(document_shares[s])
             THEN HTTPException(e, share_token, 410, "Share has expired")
             ELSE IF ~IsRow(document_shares[s].document_id)
             THEN HTTPException(e, share_token, 404, "Shared document not found")
             ELSE Response(e, share_token, 200,
                           shared_response_data(docs[document_shares[s].document_id],
                                                document_shares[s],
                                                document_shares[s].document_id))
        /\ document_shares' = IF s = 0 THEN document_shares
                              ELSE [document_shares EXCEPT ![s].is_active = FALSE]
        /\ UNCHANGED <<docs, now, shareOthers>>

access_shared_document(share_token) ==
    LET s == first({t \in ShareIds : IsShare(t)
                       /\ document_shares[t].share_token = share_token
                       /\ document_shares[t].is_active})
        e == "access_shared_document"
    IN  /\ response' =
             IF s = 0 THEN HTTPException(e, share_token, 404, "Share not found or has expired")
             ELSE IF Expired(document_shares[s])
             THEN HTTPException(e, share_token, 410, "Share has expired")
             ELSE IF ~IsRow(document_shares[s].document_id)
             THEN HTTPException(e, share_token, 404, "Shared document not found")
             ELSE Response(e, share_token, 200,
                           shared_response_data(docs[document_shares[s].document_id],
                                                document_shares[s],
                                                document_shares[s].document_id))
        /\ UNCHANGED <<docs, document_shares, now, shareOthers>>

\* share.api_permissions or {}
permissions_of(share) ==
    IF share.api_permissions = Null THEN [k \in {} |-> FALSE] ELSE share.api_permissions[1]

\* the dict access_document_via_api returns
api_response_data(document, share, d) ==
    LET response_data == [k \in DOMAIN Metadata(document, share, d) \union {"api_permissions"} |->
                            IF k = "api_permissions" THEN share.api_permissions
                            ELSE Metadata(document, share, d)[k]]
    IN  IF Get(permissions_of(share), "full_access", FALSE)
           \/ share.access_level \in {"comment", "edit"}
        THEN WithContent(response_data, document) ELSE response_data

access_document_via_api(api_key) ==
    LET s == first({t \in ShareIds : IsShare(t)
                       /\ document_shares[t].api_key = Some(api_key)
                       /\ document_shares[t].api_endpoint_enabled
                       /\ document_shares[t].is_active})
        e == "access_document_via_api"
    IN  /\ response' =
             IF s = 0 THEN HTTPException(e, api_key, 404, "Invalid API key or access denied")
             ELSE IF Expired(document_shares[s])
             THEN HTTPException(e, api_key, 410, "API access has expired")
             ELSE IF ~IsRow(document_shares[s].document_id)
             THEN HTTPException(e, api_key, 404, "Shared document not found")
             ELSE IF ~Get(permissions_of(document_shares[s]), "read", TRUE)
             THEN HTTPException(e, api_key, 403, "Insufficient API permissions")
             ELSE Response(e, api_key, 200,
                           api_response_data(docs[document_shares[s].document_id],
                                             document_shares[s],
                                             document_shares[s].document_id))
        /\ UNCHANGED <<docs, document_shares, now, shareOthers>>

get_api_status(api_key) ==
    LET s == first({t \in ShareIds : IsShare(t)
                       /\ document_shares[t].api_key = Some(api_key)
                       /\ document_shares[t].api_endpoint_enabled})
        e == "get_api_status"
    IN  /\ response' =
             IF s = 0 THEN HTTPException(e, api_key, 404, "Invalid API key")
             ELSE Response(e, api_key, 200,
                    [api_key |-> document_shares[s].api_key,
                     document_id |-> document_shares[s].document_id,
                     document_name |-> IF IsRow(document_shares[s].document_id)
                                       THEN docs[document_shares[s].document_id].original_filename
                                       ELSE "Unknown",
                     access_level |-> document_shares[s].access_level,
                     api_permissions |-> document_shares[s].api_permissions,
                     expires_at |-> document_shares[s].expires_at,
                     is_active |-> document_shares[s].is_active])
        /\ UNCHANGED <<docs, document_shares, now, shareOthers>>

delete_document_KeepsTags(u, d) ==
    /\ IF OwnDocument(u, d)
       THEN /\ docs' = [docs EXCEPT ![d] = Deleted]
            /\ UNCHANGED document_tag_association
            /\ response' = [endpoint |-> "delete_document", user |-> u, key |-> d,
                             status |-> 200,
                             body |-> [message |-> "Document deleted successfully"]]
       ELSE /\ response' = [endpoint |-> "delete_document", user |-> u, key |-> d,
                            status |-> 404, body |-> [detail |-> "Document not found"]]
            /\ UNCHANGED <<docs, document_tag_association>>
    /\ UNCHANGED <<document_tags, document_shares, now, tagOthers>>

\* routers/documents.py delete_document, called by user u; the session
\* deletes the rows of the secondary table with the document
delete_document(u, d) ==
    /\ IF OwnDocument(u, d)
       THEN /\ docs' = [docs EXCEPT ![d] = Deleted]
            /\ document_tag_association' =
                  {a \in document_tag_association : a[1] # d}
            /\ response' = [endpoint |-> "delete_document", user |-> u, key |-> d,
                             status |-> 200,
                             body |-> [message |-> "Document deleted successfully"]]
       ELSE /\ response' = [endpoint |-> "delete_document", user |-> u, key |-> d,
                            status |-> 404, body |-> [detail |-> "Document not found"]]
            /\ UNCHANGED <<docs, document_tag_association>>
    /\ UNCHANGED <<document_tags, document_shares, now, tagOthers>>

\* the clock advances; the exchange that was last served is over
Tick ==
    /\ now < MaxTime
    /\ now' = now + 1
    /\ response' = NoResponse
    /\ UNCHANGED <<docs, document_shares, shareOthers>>

\* ------------------------------------------- the document endpoints, by user
\* Every handler runs as one step here; what its processing does to the row in
\* detail is the subject of the lifecycle model above.
DocumentEndpoints ==
    {"get_document", "get_document_status", "download_document", "delete_document",
     "retry_processing", "ocr_document", "ai_analyze", "process_document",
     "share_document"}

\* a response to a request authenticated as user u
Answer(u, e, k, st, b) == [endpoint |-> e, user |-> u, key |-> k, status |-> st, body |-> b]
NotFound(u, e, d) == Answer(u, e, d, 404, [detail |-> "Document not found"])

\* DocumentPublic / DocumentResponse of a row
DocumentPublic(d) ==
    [id |-> d, user_id |-> docs[d].user_id, status |-> docs[d].processing_status,
     extractedText |-> docs[d].extracted_text, aiAnalysis |-> docs[d].ai_analysis]

get_document(u, d) ==
    /\ response' = IF OwnDocument(u, d) THEN Answer(u, "get_document", d, 200, DocumentPublic(d))
                   ELSE NotFound(u, "get_document", d)
    /\ UNCHANGED <<docs, document_shares, now, shareOthers>>

\* doc.error is no attribute of a loaded Document: reading it raises
get_document_status(u, d) ==
    /\ response' = IF OwnDocument(u, d)
                   THEN Answer(u, "get_document_status", d, 500, [detail |-> "AttributeError"])
                   ELSE NotFound(u, "get_document_status", d)
    /\ UNCHANGED <<docs, document_shares, now, shareOthers>>

download_document(u, d, exists) ==
    /\ response' = IF ~OwnDocument(u, d) THEN NotFound(u, "download_document", d)
                   ELSE IF ~exists
                   THEN Answer(u, "download_document", d, 404, [detail |-> "File not found"])
                   ELSE Answer(u, "download_document", d, 200,
                               [filename |-> docs[d].original_filename])
    /\ UNCHANGED <<docs, document_shares, now, shareOthers>>

\* api/v1 delete_document, called by user u
delete_document_v1(u, d) ==
    /\ IF OwnDocument(u, d)
       THEN /\ docs' = [docs EXCEPT ![d] = Deleted]
            /\ document_tag_association' =
                  {a \in document_tag_association : a[1] # d}
            /\ response' = Answer(u, "delete_document", d, 200,
                                  [message |-> "Document deleted successfully"])
       ELSE /\ response' = NotFound(u, "delete_document", d)
            /\ UNCHANGED <<docs, document_tag_association>>
    /\ UNCHANGED <<document_tags, document_shares, now, tagOthers>>

retry_processing(u, d, raised) ==
    /\ IF OwnDocument(u, d)
       THEN IF raised
            THEN /\ docs' = [docs EXCEPT ![d].processing_status = "failed"]
                 /\ response' = Answer(u, "retry_processing", d, 500,
                                       [detail |-> "Processing failed"])
            ELSE /\ docs' = [docs EXCEPT ![d] =
                       [@ EXCEPT !.processing_status = "completed",
                                 !.extracted_text = Some("retried"),
                                 !.ai_analysis = Some("retried"),
                                 !.key_value_pairs = Some("retried"),
                                 !.entities = Some("retried")]]
                 /\ response' = Answer(u, "retry_processing", d, 200,
                       [message |-> "Processing restarted and completed successfully"])
       ELSE /\ response' = NotFound(u, "retry_processing", d)
            /\ UNCHANGED docs
    /\ UNCHANGED <<document_shares, now, shareOthers>>

ocr_document(u, d, raised) ==
    /\ IF OwnDocument(u, d)
       THEN IF raised
            THEN /\ docs' = [docs EXCEPT ![d].processing_status = "failed"]
                 /\ response' = Answer(u, "ocr_document", d, 500, [detail |-> "OCR failed"])
            ELSE /\ docs' = [docs EXCEPT ![d] =
                       [@ EXCEPT !.processing_status = "completed",
                                 !.extracted_text = Some("retried")]]
                 /\ response' = Answer(u, "ocr_document", d, 200, [status |-> "completed"])
       ELSE /\ response' = NotFound(u, "ocr_document", d)
            /\ UNCHANGED docs
    /\ UNCHANGED <<document_shares, now, shareOthers>>

\* routers/documents.py ai_analyze (the endpoint); DocumentProcessor.ai_analyze
\* does not raise
ai_analyze_endpoint(u, d) ==
    /\ IF OwnDocument(u, d) /\ docs[d].extracted_text \notin {Null, Some("")}
       THEN /\ docs' = [docs EXCEPT ![d] =
                  [@ EXCEPT !.processing_status = "completed",
                            !.ai_analysis = Some("retried")]]
            /\ response' = Answer(u, "ai_analyze", d, 200, [status |-> "completed"])
       ELSE /\ response' = Answer(u, "ai_analyze", d, 404,
                                  [detail |-> "Document not found or not OCR'd yet"])
            /\ UNCHANGED docs
    /\ UNCHANGED <<document_shares, now, shareOthers>>

\* api/v1 process_document: marks the row and schedules the background task
process_document(u, d) ==
    /\ IF OwnDocument(u, d)
       THEN /\ docs' = [docs EXCEPT ![d].processing_status = "processing"]
            /\ response' = Answer(u, "process_document", d, 200,
                                  [DocumentPublic(d) EXCEPT !.status = "processing"])
       ELSE /\ response' = NotFound(u, "process_document", d)
            /\ UNCHANGED docs
    /\ UNCHANGED <<document_shares, now, shareOthers>>

\* ------------------------------------------------------------------- tags
\* Document.tags and DocumentTag.documents are relationships over the secondary
\* table document_tag_association: when the session deletes a Document or a
\* DocumentTag, the ORM deletes the rows of the secondary table that link it.
TagIds == 1..MaxTags

DocumentTag(u) == [user_id |-> u]
AbsentTag == [user_id |-> "absent"]
DeletedTag == [user_id |-> "deleted"]
IsTag(t) == document_tags[t].user_id \in Users

TagsIdle ==
    /\ document_tags = [t \in TagIds |-> AbsentTag]
    /\ document_tag_association = {}

\* db.query(DocumentTag).filter(id == t, user_id == u).first()
OwnTag(u, t) == IsTag(t) /\ document_tags[t].user_id = u

add_tag_to_document(u, d, t) ==
    /\ IF ~OwnDocument(u, d) \/ ~OwnTag(u, t)
       THEN /\ response' = Answer(u, "add_tag_to_document", d, 500,
                                  [detail |-> "Failed to add tag"])
            /\ UNCHANGED document_tag_association
       ELSE /\ document_tag_association' = document_tag_association \union {<<d, t>>}
            /\ response' = Answer(u, "add_tag_to_document", d, 200,
                  [message |-> IF <<d, t>> \in document_tag_association
                               THEN "Tag already assigned to document"
                               ELSE "Tag added to document successfully"])
    /\ UNCHANGED <<docs, document_tags, document_shares, now, tagOthers>>

\* the 404 raised inside the try block is caught by `except Exception`
delete_tag(u, t) ==
    /\ IF OwnTag(u, t)
       THEN /\ document_tag_association' =
                  {a \in document_tag_association : a[2] # t}
            /\ document_tags' = [document_tags EXCEPT ![t] = DeletedTag]
            /\ response' = Answer(u, "delete_tag", t, 200,
                                  [message |-> "Tag deleted successfully"])
       ELSE /\ response' = Answer(u, "delete_tag", t, 500,
                                  [detail |-> "Failed to delete tag"])
            /\ UNCHANGED <<document_tags, document_tag_association>>
    /\ UNCHANGED <<docs, document_shares, now, tagOthers>>

\* PUT /search/tags/{tag_id}: the columns it sets are not part of the model
update_tag(u, t) ==
    /\ response' = IF OwnTag(u, t)
                   THEN Answer(u, "update_tag", t, 200, [id |-> t])
                   ELSE Answer(u, "update_tag", t, 500, [detail |-> "Failed to update tag"])
    /\ UNCHANGED <<docs, tagVars, document_shares, now, tagOthers>>

\* bulk_operation with operation 'delete'.  search.py does not import os: for
\* every document the loop deletes the tag associations, then os.path.exists
\* raises NameError, which counts the document as failed and leaves its row;
\* the commit after the loop keeps the deletions of the associations.
bulk_operation(u, document_ids) ==
    LET documents == {d \in document_ids : OwnDocument(u, d)}
    IN  /\ IF documents = {}
           THEN /\ response' = Answer(u, "bulk_operation", 0, 500,
                                      [detail |-> "Bulk operation failed"])
                /\ UNCHANGED document_tag_association
           ELSE /\ document_tag_association' =
                      {a \in document_tag_association : a[1] \notin documents}
                /\ response' = Answer(u, "bulk_operation", 0, 200,
                      [operation |-> "delete", total_documents |-> Cardinality(documents),
                       success_count |-> 0, failed_count |-> Cardinality(documents)])
        /\ UNCHANGED <<docs, document_tags, document_shares, now, tagOthers>>

\* --------------------------------------------------------------------- auth
\* register and login of routers/auth.py, api/v1/auth.py and main.py.  The
\* request body is validated before the handler runs: EmailStr hands the
\* handler the normalised address (domain in lower case).  Server processes
\* run handlers side by side, so another request may commit between the
\* lookup of register and its commit; users.email is unique.
UserIds == 1..MaxUsers
CallIds == 1..MaxCalls
Apps == {"routers", "v1", "main"}
Emails == {"a@x.com", "a@X.COM", "b@x.com"}
Passwords == {"p", "q"}

\* pydantic's EmailStr: the address the handler sees
EmailStr(email) == IF email = "a@X.COM" THEN "a@x.com" ELSE email

AbsentUser == [email |-> "", password_hash |-> <<>>]
IsUser(i) == users[i].email # ""
NoCall == [pc |-> "idle"]

NoUsers ==
    /\ users = [i \in UserIds |-> AbsentUser]
    /\ calls = [c \in CallIds |-> NoCall]

AuthIdle == NoUsers /\ app = "v1"

get_password_hash(password) == <<"hash", password>>
verify_password(plain_password, hashed_password) ==
    hashed_password = <<"hash", plain_password>>

\* authenticate_user: the id of the user with this email and password, 0 for none
authenticate_user(email, password) ==
    first({i \in UserIds : IsUser(i) /\ users[i].email = email
                              /\ verify_password(password, users[i].password_hash)})

\* db.query(User).filter(User.email == email).first()
existing_user(email) == first({i \in UserIds : IsUser(i) /\ users[i].email = email})

\* an answer of register or login, with the request body as it was sent
AuthResponse(e, email, password, st, b) ==
    [endpoint |-> e, app |-> app, email |-> email, password |-> password,
     status |-> st, body |-> b]

\* what a raise of HTTPException(400) inside register becomes: main.py lets it
\* through; the other two catch it with `except Exception` and raise 500
AlreadyRegistered ==
    IF app = "main" THEN [status |-> 400, detail |-> "Email already registered"]
    ELSE [status |-> 500, detail |-> "Registration failed: 400: Email already registered"]

\* register up to the lookup of the email
register(c, user_data) ==
    /\ calls[c] = NoCall /\ \A b \in 1..(c - 1) : calls[b] # NoCall
    /\ IF existing_user(EmailStr(user_data.email)) # 0
       THEN /\ response' = AuthResponse("register", user_data.email, user_data.password,
                                        AlreadyRegistered.status,
                                        [detail |-> AlreadyRegistered.detail])
            /\ UNCHANGED calls
       ELSE /\ calls' = [calls EXCEPT ![c] =
                  [pc |-> "add", email |-> user_data.email,
                   password |-> user_data.password]]
            /\ UNCHANGED response
    /\ UNCHANGED <<users, app, authOthers>>

\* db.add, db.commit and the return of register; the commit raises
\* IntegrityError when the email has been taken meanwhile
register_commit(c) ==
    /\ calls[c] # NoCall
    /\ calls' = [calls EXCEPT ![c] = NoCall]
    /\ LET call == calls[c]
           email == EmailStr(call.email)
       IN  IF existing_user(email) # 0
           THEN /\ response' = AuthResponse("register", call.email, call.password,
                                            500, [detail |-> "IntegrityError"])
                /\ UNCHANGED users
           ELSE \E i \in UserIds :
                  /\ ~IsUser(i) /\ \A j \in 1..(i - 1) : IsUser(j)
                  /\ users' = [users EXCEPT ![i] =
                        [email |-> email,
                         password_hash |-> get_password_hash(call.password)]]
                  /\ response' = AuthResponse("register", call.email, call.password,
                        200,
                        IF app = "main"
                        THEN [message |-> "User created successfully", user_id |-> i]
                        ELSE [id |-> i, email |-> email])
    /\ UNCHANGED <<app, authOthers>>

_perform_login_Rejects(email, password, mock) ==
    [status |-> 401, body |-> [detail |-> "Incorrect email or password"]]

\* login of routers/auth.py and api/v1/auth.py; mock: authenticate_mock_user
\* accepts the credentials
_perform_login(email, password, mock) ==
    LET user == authenticate_user(email, password)
    IN  IF user # 0
        THEN [status |-> 200,
              body |-> [access_token |-> <<"access", user>>,
                        refresh_token |-> <<"refresh", user>>,
                        token_type |-> "bearer", expires_in |-> 3600]]
        ELSE IF mock
        THEN [status |-> 200,
              body |-> [access_token |-> <<"access", "mock">>,
                        refresh_token |-> <<"refresh", "mock">>,
                        token_type |-> "bearer", expires_in |-> 3600]]
        ELSE [status |-> 401, body |-> [detail |-> "Incorrect email or password"]]

\* login of main.py
login_main(email, password) ==
    LET db_user == existing_user(email)
    IN  IF db_user = 0 \/ ~verify_password(password, users[db_user].password_hash)
        THEN [status |-> 401, body |-> [detail |-> "Invalid credentials"]]
        ELSE [status |-> 200,
              body |-> [access_token |-> <<"access", db_user>>, token_type |-> "bearer"]]

\* login_form of routers/auth.py: the username of the form is used as typed
login_form(form_data, mock) ==
    /\ app = "routers"
    /\ LET r == _perform_login(form_data.email, form_data.password, mock)
       IN  response' = AuthResponse("login-form", form_data.email, form_data.password,
                                    r.status, r.body)
    /\ UNCHANGED <<users, calls, app, authOthers>>

login(user_credentials, mock) ==
    /\ LET email == EmailStr(user_credentials.email)
           r == IF app = "main" THEN login_main(email, user_credentials.password)
                ELSE _perform_login(email, user_credentials.password, mock)
       IN  response' = AuthResponse("login", user_credentials.email,
                                    user_credentials.password, r.status, r.body)
    /\ UNCHANGED <<users, calls, app, authOthers>>

\* ------------------------------------------------------------------- export
\* api/v1/export.py over services/export_service.py.  The service object is
\* created once per process (export_service = ExportService()), so
\* self.templates lives as long as the server.  A uuid4 is modelled by the
\* number of the draw: every draw gives a value never seen before.
ConfigIds == 1..MaxConfigs
ExportFormats == {"json", "csv", "txt", "pdf"}

\* self.templates as __init__ builds it
DefaultTemplates ==
    [standard |-> [include_metadata |-> TRUE, include_ocr_text |-> TRUE,
                   include_ai_analysis |-> TRUE, include_key_values |-> TRUE,
                   include_entities |-> TRUE, format_dates |-> TRUE,
                   include_confidence_scores |-> TRUE],
     minimal |-> [include_metadata |-> FALSE, include_ocr_text |-> FALSE,
                  include_ai_analysis |-> FALSE, include_key_values |-> TRUE,
                  include_entities |-> FALSE, format_dates |-> TRUE,
                  include_confidence_scores |-> FALSE],
     detailed |-> [include_metadata |-> TRUE, include_ocr_text |-> TRUE,
                   include_ai_analysis |-> TRUE, include_key_values |-> TRUE,
                   include_entities |-> TRUE, format_dates |-> TRUE,
                   include_confidence_scores |-> TRUE,
                   include_processing_history |-> TRUE, include_file_info |-> TRUE],
     custom |-> [include_metadata |-> TRUE, include_ocr_text |-> TRUE,
                 include_ai_analysis |-> TRUE, include_key_values |-> TRUE,
                 include_entities |-> TRUE, format_dates |-> TRUE,
                 include_confidence_scores |-> TRUE]]

\* the template_config values of the checked export configurations
TemplateConfigs ==
    {Null, Some([include_metadata |-> FALSE]), Some([include_file_info |-> TRUE])}

ExportConfig(u, tc) == [user_id |-> u, template_config |-> tc]
AbsentConfig == [user_id |-> "absent"]
DeletedConfig == [user_id |-> "deleted"]
IsConfig(c) == export_configs[c].user_id \in Users

ExportIdle ==
    /\ templates = DefaultTemplates
    /\ export_configs = [c \in ConfigIds |-> AbsentConfig]
    /\ export_dir = {}
    /\ uuids = 0

\* db.query(ExportConfig).filter(id == c, user_id == u).first(); c = 0: no id given
OwnConfig(u, c) == c \in ConfigIds /\ IsConfig(c) /\ export_configs[c].user_id = u

\* dict.get(key) read as a truth value
Flag(template, key) == key \in DOMAIN template /\ template[key]

\* dict.update
update(template, overrides) ==
    [k \in DOMAIN template \cup DOMAIN overrides |->
        IF k \in DOMAIN overrides THEN overrides[k] ELSE template[k]]

\* _prepare_export_data: the keys of the export data
_prepare_export_data(document, template) ==
    {k \in {"metadata"} : Flag(template, "include_metadata")}
    \cup {k \in {"ocr_text"} : Flag(template, "include_ocr_text")}
    \cup {k \in {"ai_analysis"} :
            Flag(template, "include_ai_analysis") /\ document.ai_analysis # Null}
    \cup {k \in {"key_value_pairs"} :
            Flag(template, "include_key_values") /\ document.key_value_pairs # Null}
    \cup {k \in {"entities"} : Flag(template, "include_entities") /\ document.entities # Null}
    \cup {k \in {"processing_status", "ocr_confidence", "document_type"} :
            Flag(template, "include_processing_history")}
    \cup {k \in {"file_info"} : Flag(template, "include_file_info")}

\* the key of self.templates that templates.get(template_name, templates["standard"]) reads
TemplateKey(template_name) ==
    IF template_name \in DOMAIN templates THEN template_name ELSE "standard"

\* self.templates after the first lines of ExportService.export_document:
\* template is the stored dict itself, and template.update writes into it
ExportedTemplate(template_name, export_config) ==
    IF export_config # 0 /\ export_configs[export_config].template_config # Null
    THEN [templates EXCEPT ![TemplateKey(template_name)] =
              update(@, export_configs[export_config].template_config[1])]
    ELSE templates

\* the settings the export is made with
UsedTemplate(template_name, export_config) ==
    IF export_config # 0 /\ export_configs[export_config].template_config # Null
    THEN update(templates[TemplateKey(template_name)],
                export_configs[export_config].template_config[1])
    ELSE templates[TemplateKey(template_name)]

\* the file that _export_json, _export_csv, _export_txt or _export_pdf writes:
\* {document.filename}_{export_id}.{format}
ExportFile(d, export_id, format, data) ==
    [document |-> d, export_id |-> export_id, format |-> format, data |-> data]

\* ExportService.get_export_file_path: the glob *_{export_id}.* in export_dir
get_export_file_path(export_id) == {f \in export_dir : f.export_id = export_id}

\* POST /export/: the export is written under the export_id that the service
\* draws; the response carries a second uuid4 as export_id and the service's
\* id only inside download_url.  raised: writing the file fails
export_document(u, export_request, raised) ==
    /\ uuids + 2 <= 2 * MaxExports
    /\ IF ~OwnDocument(u, export_request.document_id)
       THEN /\ response' = Answer(u, "export_document", export_request.document_id, 500,
                                  [detail |-> "Export failed: 404: Document not found"])
            /\ UNCHANGED <<templates, export_dir, uuids>>
       ELSE LET c == IF OwnConfig(u, export_request.export_config_id)
                     THEN export_request.export_config_id ELSE 0
                name == export_request.template_name
            IN  /\ templates' = ExportedTemplate(name, c)
                /\ IF raised
                   THEN /\ response' = Answer(u, "export_document",
                                              export_request.document_id, 500,
                                              [detail |-> "Export failed"])
                        /\ UNCHANGED <<export_dir, uuids>>
                   ELSE /\ export_dir' = export_dir \cup
                              {ExportFile(export_request.document_id, uuids + 1,
                                          export_request.export_format,
                                          _prepare_export_data(
                                              docs[export_request.document_id],
                                              UsedTemplate(name, c)))}
                        /\ uuids' = uuids + 2
                        /\ response' = Answer(u, "export_document",
                                              export_request.document_id, 200,
                                              [success |-> TRUE, export_id |-> uuids + 2,
                                               download_url |-> uuids + 1,
                                               format |-> export_request.export_format,
                                               template_name |-> name, config |-> c])
    /\ UNCHANGED <<export_configs, exportOthers>>

\* GET /export/download/{export_id}: the 404 is raised inside the try block
download_export(u, export_id) ==
    /\ response' =
          IF get_export_file_path(export_id) = {}
          THEN Answer(u, "download_export", export_id, 500,
                      [detail |-> "Download failed: 404: Export file not found"])
          ELSE Answer(u, "download_export", export_id, 200, [download_ready |-> TRUE])
    /\ UNCHANGED <<exportVars, exportOthers>>

\* GET /export/status/{export_id}
get_export_status(u, export_id) ==
    /\ response' =
          Answer(u, "get_export_status", export_id, 200,
                 [status |-> IF get_export_file_path(export_id) = {} THEN "not_found"
                             ELSE "completed"])
    /\ UNCHANGED <<exportVars, exportOthers>>

\* POST /export/configs
create_export_config(u, c, config) ==
    /\ export_configs[c] = AbsentConfig
    /\ \A b \in 1..(c - 1) : export_configs[b] # AbsentConfig
    /\ export_configs' = [export_configs EXCEPT ![c] = ExportConfig(u, config.template_config)]
    /\ response' = Answer(u, "create_export_config", c, 200, [id |-> c])
    /\ UNCHANGED <<templates, export_dir, uuids, exportOthers>>

\* PUT /export/configs/{config_id}
update_export_config(u, c, config_update) ==
    /\ IF OwnConfig(u, c)
       THEN /\ export_configs' =
                  [export_configs EXCEPT ![c].template_config = config_update.template_config]
            /\ response' = Answer(u, "update_export_config", c, 200, [id |-> c])
       ELSE /\ response' = Answer(u, "update_export_config", c, 500,
                  [detail |-> "Failed to update export config: 404: Export config not found"])
            /\ UNCHANGED export_configs
    /\ UNCHANGED <<templates, export_dir, uuids, exportOthers>>

\* DELETE /export/configs/{config_id}
delete_export_config(u, c) ==
    /\ IF OwnConfig(u, c)
       THEN /\ export_configs' = [export_configs EXCEPT ![c] = DeletedConfig]
            /\ response' = Answer(u, "delete_export_config", c, 200,
                                  [message |-> "Export config deleted successfully"])
       ELSE /\ response' = Answer(u, "delete_export_config", c, 500,
                  [detail |-> "Failed to delete export config: 404: Export config not found"])
            /\ UNCHANGED export_configs
    /\ UNCHANGED <<templates, export_dir, uuids, exportOthers>>

\* GET /export/templates: ExportService.get_available_templates
get_export_templates ==
    /\ response' = Answer("", "get_export_templates", 0, 200, [templates |-> templates])
    /\ UNCHANGED <<exportVars, exportOthers>>

\* ---------------------------------------------------------- bulk operations
\* POST /search/bulk with the operations 'reprocess', 'add_tags' and
\* 'remove_tags', and DELETE /search/documents/{id}/tags/{tag_id}.  The 404 for
\* an empty selection is raised inside the try block and answered as 500.
NoDocuments(u, document_ids) ==
    Answer(u, "bulk_operation", document_ids, 500,
           [detail |-> "Bulk operation failed: 404: No documents found"])

BulkOperationResponse(u, document_ids, operation, total, success_count) ==
    Answer(u, "bulk_operation", document_ids, 200,
           [operation |-> operation, total_documents |-> total,
            success_count |-> success_count, failed_count |-> 0])

\* 'reprocess' in the lifecycle model, whose documents all belong to the one
\* user: the columns are reset and committed; no task is added, no job queued
bulk_reprocess(document_ids) ==
    LET documents == {d \in document_ids : IsRow(d)}
    IN  /\ IF documents = {}
           THEN /\ response' = NoDocuments("A", document_ids)
                /\ UNCHANGED docs
           ELSE /\ docs' = [d \in DocIds |->
                              IF d \in documents
                              THEN [docs[d] EXCEPT !.processing_status = "uploaded",
                                                   !.processed_at = FALSE,
                                                   !.ai_analysis = Null,
                                                   !.key_value_pairs = Null,
                                                   !.entities = Null]
                              ELSE docs[d]]
                /\ response' = BulkOperationResponse("A", document_ids, "reprocess",
                                   Cardinality(documents), Cardinality(documents))
        /\ UNCHANGED <<procs, accepted, ocrVars, clsVars, jobVars, kvVars, ai_result,
                       document_shares, now, tagVars, authVars, restVars>>

\* 'add_tags': for every selected document of the caller and every tag id of
\* the request that is not yet linked, a row is added; the tag is not looked up
bulk_add_tags(u, document_ids, tag_ids) ==
    LET documents == {d \in document_ids : OwnDocument(u, d)}
    IN  /\ IF documents = {}
           THEN /\ response' = NoDocuments(u, document_ids)
                /\ UNCHANGED document_tag_association
           ELSE /\ document_tag_association' =
                      document_tag_association \union (documents \X tag_ids)
                /\ response' = BulkOperationResponse(u, document_ids, "add_tags",
                                   Cardinality(documents),
                                   IF tag_ids = {} THEN 0 ELSE Cardinality(documents))
        /\ UNCHANGED <<docs, document_tags, document_shares, now, tagOthers>>

\* 'remove_tags'
bulk_remove_tags(u, document_ids, tag_ids) ==
    LET documents == {d \in document_ids : OwnDocument(u, d)}
    IN  /\ IF documents = {}
           THEN /\ response' = NoDocuments(u, document_ids)
                /\ UNCHANGED document_tag_association
           ELSE /\ document_tag_association' =
                      document_tag_association \ (documents \X tag_ids)
                /\ response' = BulkOperationResponse(u, document_ids, "remove_tags",
                                   Cardinality(documents),
                                   IF tag_ids = {} THEN 0 ELSE Cardinality(documents))
        /\ UNCHANGED <<docs, document_tags, document_shares, now, tagOthers>>

\* DELETE /search/documents/{document_id}/tags/{tag_id}
remove_tag_from_document(u, d, t) ==
    /\ IF OwnDocument(u, d)
       THEN /\ document_tag_association' = document_tag_association \ {<<d, t>>}
            /\ response' = Answer(u, "remove_tag_from_document", d, 200,
                                  [message |-> "Tag removed from document successfully"])
       ELSE /\ response' = Answer(u, "remove_tag_from_document", d, 500,
                                  [detail |-> "Failed to remove tag"])
            /\ UNCHANGED document_tag_association
    /\ UNCHANGED <<docs, document_tags, document_shares, now, tagOthers>>

\* ------------------------------------------------- DocumentProcessor.cache
\* process_batch of the DocumentProcessor singleton: self.cache maps a file
\* path to the result of its first successful processing.
MaxBatch == 2

BatchPaths == {"a", "b"}

\* what may lie at a path when it is processed: a readable image, an image
\* that cannot be opened, a PDF that cannot be opened
BatchFiles ==
    { DocFile("png", TRUE, Img("ok", T("c", 40), FALSE, <<Word(FALSE, 96), Word(FALSE, 78)>>), FALSE, <<>>),
      DocFile("png", FALSE, NoImage, FALSE, <<>>),
      DocFile("pdf", TRUE, NoImage, FALSE, <<>>) }

NoBatch == [file_paths |-> <<>>, at |-> 0, results |-> <<>>]

CacheIdle == cache = [p \in BatchPaths |-> Null] /\ batch = NoBatch

\* validate_extracted_data: every field gains is_valid and formatted_value
validate_extracted_data(key_values) == [kind |-> "validated", of |-> key_values]

\* the entry of a path whose processing raised
BatchError(file_path, e, utcnow) ==
    [file_path |-> file_path, error |-> e, processing_timestamp |-> utcnow]

\* the entry of a path that was processed
BatchResult(file_path, ocr_result, up, utcnow) ==
    [file_path |-> file_path,
     ocr |-> ocr_result,
     ai_analysis |-> [DocAnalysis(ocr_result.text, up) EXCEPT
                         !.key_value_pairs = validate_extracted_data(@)],
     processing_timestamp |-> utcnow]

\* one round of the loop of process_batch over st = (cache, results), with
\* the file f at the path and Ollama up or not
process_path_Recomputing(st, file_path, f, up, utcnow) ==
    LET ocr_result == ocr_whole(f)
    IN  IF ocr_result.kind = "raised"
        THEN [st EXCEPT !.results = Append(@, BatchError(file_path, ocr_result.error, utcnow))]
        ELSE LET r == BatchResult(file_path, ocr_result, up, utcnow)
             IN  [cache |-> [st.cache EXCEPT ![file_path] = Some(r)],
                  results |-> Append(st.results, r)]

process_path(st, file_path, f, up, utcnow) ==
    IF st.cache[file_path] # Null
    THEN [st EXCEPT !.results = Append(@, st.cache[file_path][1])]
    ELSE LET ocr_result == ocr_whole(f)
         IN  IF ocr_result.kind = "raised"
             THEN [st EXCEPT !.results =
                                Append(@, BatchError(file_path, ocr_result.error, utcnow))]
             ELSE LET r == BatchResult(file_path, ocr_result, up, utcnow)
                  IN  [cache |-> [st.cache EXCEPT ![file_path] = Some(r)],
                       results |-> Append(st.results, r)]

RECURSIVE BatchLoop(_, _, _, _, _, _)
BatchLoop(st, file_paths, i, disk, up, utcnow) ==
    IF i > Len(file_paths) THEN st
    ELSE BatchLoop(process_path(st, file_paths[i], disk[file_paths[i]], up, utcnow),
                   file_paths, i + 1, disk, up, utcnow)

\* await processor.process_batch(file_paths) while the files of disk lie at
\* the paths and Ollama is up or not
process_batch(file_paths, disk, up) ==
    /\ \E st \in {BatchLoop([cache |-> cache, results |-> <<>>], file_paths, 1, disk, up, now)} :
          /\ cache' = st.cache
          /\ batch' = [file_paths |-> file_paths, at |-> now, results |-> st.results]
    /\ UNCHANGED <<now, response, cacheOthers>>

clear_cache ==
    /\ cache' = [p \in BatchPaths |-> Null]
    /\ UNCHANGED <<batch, now, response, cacheOthers>>

RestIdle == ExportIdle /\ CacheIdle

ExtIdle == KvIdle /\ AnalyzeIdle /\ ShareIdle /\ TagsIdle /\ AuthIdle /\ RestIdle

\* ------------------------------------------------------------ specifications
OcrIdle == file = NoFile /\ pdf = Idle /\ result = NoResult

InitOcr ==
    /\ file \in Files /\ pdf = Idle /\ result = NoResult
    /\ ClsIdle /\ DocsIdle /\ JobsIdle /\ ExtIdle

NextOcr ==
    \/ OcrCall \/ PdfOpen \/ PdfPage \/ PdfFinish
    \/ SvcCall \/ SvcPdfOpen \/ SvcPdfPage \/ SvcPdfFinish

SpecOcr == InitOcr /\ [][NextOcr]_vars

InitClassify == ClsIdle /\ OcrIdle /\ DocsIdle /\ JobsIdle /\ ExtIdle

SpecClassify == InitClassify /\ [][NextClassify]_vars

InitDocs == DocsIdle /\ OcrIdle /\ ClsIdle /\ JobsIdle /\ ExtIdle

\* what the clients do
Requests == UploadV1 \/ ProcessV1 \/ DeleteDocument \/ UploadCreate \/ RetryStart

\* what the server does with a request or a task it has accepted
Background == BgStart \/ BgAfterOcr \/ BgAfterAi

Upload == UploadProcessing \/ UploadOcr \/ UploadAiProcessing \/ UploadAi \/ UploadReturn

Retry == RetryProcessing \/ RetryOcr \/ RetryAiProcessing \/ RetryAi

NextDocs == Requests \/ Background \/ Upload \/ Retry

SpecDocs == InitDocs /\ [][NextDocs]_vars

\* an accepted request or task is run to its end
FairSpecDocs ==
    SpecDocs /\ WF_vars(Background) /\ WF_vars(Upload) /\ WF_vars(Retry)

InitJob ==
    /\ docs \in [DocIds -> JobDocs]
    /\ ai_models \in [ModelIds -> {AbsentModel, [usage_count |-> 0]}]
    /\ jobs \in [JobIds -> {AbsentJob} \cup {NewJob(d, m) : d \in DocIds, m \in ModelIds}]
    /\ workers = [j \in JobIds |-> Queued]
    /\ procs = [p \in ProcIds |-> NoProc] /\ accepted = 0
    /\ OcrIdle /\ ClsIdle /\ ExtIdle

NextJob == TaskStart \/ TaskLookup \/ TaskProgress \/ TaskAi \/ TaskSuccess

SpecJob == InitJob /\ [][NextJob]_vars

\* the application of the api/v1 router alone
NextV1 == UploadV1 \/ ProcessV1 \/ DeleteDocument \/ Background

FairSpecV1 == InitDocs /\ [][NextV1]_vars /\ WF_vars(Background)

InitExtract == ExtIdle /\ OcrIdle /\ ClsIdle /\ DocsIdle /\ JobsIdle

NextAnalyze == AddPhrase \/ Analyze

SpecAnalyze == InitClassify /\ [][NextAnalyze]_vars

NextExtract == AddItem \/ Extract

SpecExtract == InitExtract /\ [][NextExtract]_vars

InitShare ==
    /\ docs \in [DocIds -> {StoredDocument(u) : u \in Users}]
    /\ docs[1].user_id = "A"
    /\ procs = [p \in ProcIds |-> NoProc] /\ accepted = 0
    /\ ShareIdle /\ TagsIdle /\ AuthIdle /\ RestIdle
    /\ OcrIdle /\ ClsIdle /\ JobsIdle /\ KvIdle /\ AnalyzeIdle

Owner ==
    \E u \in Users :
        \/ \E d \in DocIds, data \in ShareRequests : share_document(u, d, data)
        \/ \E s \in ShareIds, share_update \in ShareUpdates : update_share(u, s, share_update)
        \/ \E s \in ShareIds : delete_share(u, s)
        \/ \E s \in ShareIds : revoke_share(u, s)
        \/ \E d \in DocIds : delete_document(u, d)

Unauthenticated ==
    \E k \in ShareIds :
        access_shared_document(k) \/ access_document_via_api(k) \/ get_api_status(k)

NextShare == Owner \/ Unauthenticated \/ Tick

SpecShare == InitShare /\ [][NextShare]_vars

DocumentRequests ==
    \E u \in Users, d \in DocIds :
        \/ get_document(u, d)
        \/ get_document_status(u, d)
        \/ \E exists \in BOOLEAN : download_document(u, d, exists)
        \/ delete_document(u, d)
        \/ delete_document_v1(u, d)
        \/ \E raised \in BOOLEAN : retry_processing(u, d, raised)
        \/ \E raised \in BOOLEAN : ocr_document(u, d, raised)
        \/ ai_analyze_endpoint(u, d)
        \/ process_document(u, d)
        \/ share_document(u, d, ShareCreate("view", Null, FALSE, Null))

SpecOwner == InitShare /\ [][DocumentRequests]_vars

InitTags ==
    /\ docs \in [DocIds -> {StoredDocument(u) : u \in Users}]
    /\ docs[1].user_id = "A"
    /\ procs = [p \in ProcIds |-> NoProc] /\ accepted = 0
    /\ document_tags \in [TagIds -> {DocumentTag(u) : u \in Users}]
    /\ document_tag_association = {}
    /\ ShareIdle /\ AuthIdle /\ RestIdle
    /\ OcrIdle /\ ClsIdle /\ JobsIdle /\ KvIdle /\ AnalyzeIdle

NextTags ==
    \E u \in Users :
        \/ \E d \in DocIds, t \in TagIds : add_tag_to_document(u, d, t)
        \/ \E t \in TagIds : delete_tag(u, t)
        \/ \E t \in TagIds : update_tag(u, t)
        \/ \E d \in DocIds : delete_document(u, d)
        \/ \E d \in DocIds : delete_document_v1(u, d)
        \/ \E document_ids \in SUBSET DocIds : bulk_operation(u, document_ids)

SpecTags == InitTags /\ [][NextTags]_vars

InitAuth ==
    /\ NoUsers /\ app \in Apps
    /\ KvIdle /\ AnalyzeIdle /\ ShareIdle /\ TagsIdle /\ RestIdle
    /\ OcrIdle /\ ClsIdle /\ DocsIdle /\ JobsIdle

NextAuth ==
    \/ \E c \in CallIds, user_data \in [email : Emails, password : {"p"}] :
          register(c, user_data)
    \/ \E c \in CallIds : register_commit(c)
    \/ \E user_credentials \in [email : Emails, password : Passwords], mock \in BOOLEAN :
          login(user_credentials, mock)
    \/ \E form_data \in [email : Emails, password : Passwords], mock \in BOOLEAN :
          login_form(form_data, mock)

SpecAuth == InitAuth /\ [][NextAuth]_vars

InitExport ==
    /\ docs \in [DocIds -> {StoredDocument(u) : u \in Users}]
    /\ docs[1].user_id = "A"
    /\ procs = [p \in ProcIds |-> NoProc] /\ accepted = 0
    /\ ShareIdle /\ TagsIdle /\ AuthIdle /\ ExportIdle /\ CacheIdle
    /\ OcrIdle /\ ClsIdle /\ JobsIdle /\ KvIdle /\ AnalyzeIdle

\* the export requests that are checked
ExportRequests ==
    [document_id : DocIds, export_format : {"json", "csv"}, export_config_id : {0} \cup ConfigIds,
     template_name : {"standard", "minimal", "mine"}]

NextExport ==
    \/ \E u \in Users, export_request \in ExportRequests, raised \in BOOLEAN :
          export_document(u, export_request, raised)
    \/ \E u \in Users, export_id \in 1..(2 * MaxExports) : download_export(u, export_id)
    \/ \E u \in Users, export_id \in 1..(2 * MaxExports) : get_export_status(u, export_id)
    \/ \E u \in Users, c \in ConfigIds, config \in [template_config : TemplateConfigs] :
          create_export_config(u, c, config)
    \/ \E u \in Users, c \in ConfigIds, config_update \in [template_config : TemplateConfigs] :
          update_export_config(u, c, config_update)
    \/ \E u \in Users, c \in ConfigIds : delete_export_config(u, c)
    \/ get_export_templates

SpecExport == InitExport /\ [][NextExport]_vars

\* ------------------------------------------------------------ batch cache
\* Ollama answers throughout: ai_analyze raises in neither case, so only the
\* file at a path decides whether its processing raises.
InitBatch ==
    /\ OcrIdle /\ ClsIdle /\ DocsIdle /\ JobsIdle /\ KvIdle /\ AnalyzeIdle
    /\ ShareIdle /\ TagsIdle /\ AuthIdle /\ ExportIdle /\ CacheIdle

BatchCalls == UNION {[1..n -> BatchPaths] : n \in 1..MaxBatch}

NextBatch ==
    \/ \E file_paths \in BatchCalls, disk \in [BatchPaths -> BatchFiles] :
          process_batch(file_paths, disk, TRUE)
    \/ clear_cache
    \/ Tick

SpecBatch == InitBatch /\ [][NextBatch]_vars

\* --------------------------------------------------------- bulk operations
\* the api/v1 application with bulk 'reprocess'; tasks that were scheduled run
BulkReprocess == \E document_ids \in SUBSET DocIds : bulk_reprocess(document_ids)

NextReprocess == NextV1 \/ BulkReprocess

FairSpecReprocess == InitDocs /\ [][NextReprocess]_vars /\ WF_vars(Background)

\* the tag endpoints of search.py
BulkTags ==
    \E u \in Users, document_ids \in SUBSET DocIds, tag_ids \in SUBSET TagIds :
        \/ bulk_add_tags(u, document_ids, tag_ids)
        \/ bulk_remove_tags(u, document_ids, tag_ids)

RemoveTag == \E u \in Users, d \in DocIds, t \in TagIds : remove_tag_from_document(u, d, t)

NextBulk == NextTags \/ BulkTags \/ RemoveTag

SpecBulk == InitTags /\ [][NextBulk]_vars

\* ============================================================ claims: OCR
InPdfLoop == pdf # Idle /\ "fn" \in DOMAIN pdf /\ pdf.fn = "_ocr_pdf"

\* the average EasyOCR confidence of the input is above 0.5
EasyAccepted(f) ==
    f.reader /\ ~f.easy.raises /\ Mean(EasyConfs(f.easy.res)) > 50

C7_FallbackSelection ==
    (result.kind = "returned" /\ result.fn = "ocr" /\ Lower(file.ext) # "pdf") =>
        IF EasyAccepted(file)
        THEN /\ result.engine = "easyocr"
             /\ result.confidence = Mean(EasyConfs(file.easy.res))
             /\ result.text = _ocr_easyocr(file)[1]
             /\ result.ran = <<"easyocr">>
        ELSE /\ result.engine = "tesseract"
             /\ result.text = _ocr_tesseract(file.image)[1]
             /\ result.confidence = _ocr_tesseract(file.image)[2]
             /\ result.ran = (IF file.reader THEN <<"easyocr">> ELSE <<>>) \o <<"tesseract">>

\* an EasyOCR result at exactly 0.5 was discarded for Tesseract's
C7_Witness ==
    /\ result.kind = "returned" /\ result.fn = "ocr"
    /\ file.reader /\ ~file.easy.raises /\ Mean(EasyConfs(file.easy.res)) = 50
    /\ file.image.tess = "ok" /\ file.image.text.n > 0
    /\ result.engine = "tesseract" /\ result.text = file.image.text

C9_ConfidenceInUnitRange ==
    result.kind = "returned" => (0 <= result.confidence /\ result.confidence <= ONE)

\* ================================================== claims: classification
Matched(c) == Cardinality({ k \in c.keywords : \E p \in text : p.w = k })

Table == { document_keywords[i] : i \in DOMAIN document_keywords }

\* C10: each category scores matched/size; the best category (the first in
\* table order on ties) is returned with its score, or ("generic", 0.5) when
\* the best score is below 0.3; so the type is one of the six categories or
\* generic and the confidence is never below 0.3.
C10_Classification ==
    cls # NoClass =>
        /\ cls.type \in {"invoice", "contract", "form", "receipt", "letter", "report", "generic"}
        /\ cls.confidence >= 30
        /\ IF \A c \in Table : 10 * Matched(c) < 3 * Cardinality(c.keywords)
           THEN cls.type = "generic" /\ cls.confidence = 50
           ELSE \E i \in DOMAIN document_keywords :
                   LET c == document_keywords[i]
                   IN  /\ cls.type = c.type
                       /\ cls.confidence * Cardinality(c.keywords) = 100 * Matched(c)
                       /\ \A j \in DOMAIN document_keywords :
                             LET d == document_keywords[j]
                             IN  /\ Matched(d) * Cardinality(c.keywords)
                                       <= Matched(c) * Cardinality(d.keywords)
                                 /\ j < i => Matched(d) * Cardinality(c.keywords)
                                                < Matched(c) * Cardinality(d.keywords)

\* two categories tie at 0.4 in a capitalised text and the first one wins
C10_Witness ==
    /\ cls.type = "invoice" /\ cls.confidence = 40
    /\ { p.w : p \in text } = {"invoice", "bill", "contract", "terms"}
    /\ \A p \in text : p.upper

\* ===================================================== claims: document status
Terminal(d) == docs[d].processing_status \in {"completed", "failed"}

FromV1(d) == IsRow(d) /\ docs[d].origin = "v1"

\* C1: a document created by upload_document of api/v1 eventually has the
\* status completed or failed once its background task has run to its end,
\* unless the document is deleted first.
C1_EventuallyTerminal ==
    \A d \in DocIds : FromV1(d) ~> (Terminal(d) \/ ~IsRow(d))

\* a document of api/v1 that its background task has marked completed or failed
C1_Witness ==
    \E d \in DocIds :
        /\ FromV1(d) /\ Terminal(d)
        /\ \A p \in ProcIds : procs[p] = NoProc

\* C2: no document goes from uploaded straight to completed or failed.
C2_ThroughProcessing ==
    [][\A d \in DocIds :
          ~(docs[d].processing_status = "uploaded"
            /\ docs'[d].processing_status \in {"completed", "failed"})]_vars

\* the OCR of upload_document failed: it raised, or returned 10 characters or fewer
OcrFailed(f) ==
    LET r == ocr_whole(f)
    IN  r.kind = "raised" \/ Get(r, "text", Empty).n <= 10

Returning(p) == procs[p].kind = "upload" /\ procs[p].pc = "return"

\* C4: when upload_document of routers returns, the document is never failed;
\* if its OCR failed the document is completed with confidence 0.0, a
\* bracketed placeholder as text, a skipped analysis and empty lists of
\* key-value pairs and entities.
C4_UploadOcrFailure ==
    \A p \in ProcIds :
        Returning(p) =>
            LET row == docs[procs[p].doc]
            IN  /\ row.processing_status = "completed"
                /\ OcrFailed(row.file_path) =>
                      /\ row.ocr_confidence = Some(0)
                      /\ row.extracted_text = Some(Bracket)
                      /\ row.ai_analysis = Some(Skipped)
                      /\ row.key_value_pairs = Some(EmptyList)
                      /\ row.entities = Some(EmptyList)

\* an upload returns whose OCR raised
C4_Witness ==
    \E p \in ProcIds :
        /\ Returning(p)
        /\ ocr_whole(docs[procs[p].doc].file_path).kind = "raised"
        /\ docs[procs[p].doc].processing_status = "completed"

\* the row holds an error message
ErrorRecorded(row) ==
    \E c \in {"error", "error_message"} \cap DOMAIN row : row[c] # Null

\* C5: every failed document has an error message recorded on its row.
C5_FailedHasError ==
    \A d \in DocIds :
        docs[d].processing_status = "failed" => ErrorRecorded(docs[d])

\* ============================================================== claims: jobs
Ended(j) == workers[j].pc = "done" /\ jobs[j] # AbsentJob

ReportedSuccess(j) ==
    "reported" \in DOMAIN workers[j] /\ Get(workers[j].reported, "success", FALSE)

\* the job is in one of the two final statuses, with the columns that go with it
Final(j) ==
    /\ jobs[j].status \in {"completed", "failed"}
    /\ jobs[j].status = "completed" => jobs[j].result_data # Null /\ jobs[j].completed_at
    /\ jobs[j].status = "failed" => jobs[j].error_message # Null

Matching(field, toks) ==
    {k \in 1..PatternCount(field) : \E i \in DOMAIN toks :
        \E e \in Lexicon : e[1] = toks[i] /\ e[2] = field /\ e[3] = k}

\* the leftmost match of pattern k of the field
Leftmost(field, k, toks) ==
    LET at == CHOOSE i \in DOMAIN toks :
                /\ \E e \in Lexicon : e[1] = toks[i] /\ e[2] = field /\ e[3] = k
                /\ \A j \in 1..(i - 1) :
                      ~\E e \in Lexicon : e[1] = toks[j] /\ e[2] = field /\ e[3] = k
    IN  (CHOOSE e \in Lexicon : e[1] = toks[at] /\ e[2] = field /\ e[3] = k)[4]

Boost(field, value) ==
    IF field = "email" /\ value \in HasAt THEN 20
    ELSE IF field = "amount" /\ value \in NumericValues THEN 15
    ELSE IF field = "date" /\ value \in DmyValues THEN 10
    ELSE 0

\* C11: extract_key_value_pairs outputs a field exactly when one of its
\* patterns matches; the value is the first match of the first pattern that
\* matches, and the confidence is 0.7 plus the format boost, at most 1.0.
C11_FirstMatchingPattern ==
    extracted # NotExtracted =>
        /\ DOMAIN extracted.fields = {f \in Fields : Matching(f, tokens) # {}}
        /\ \A f \in DOMAIN extracted.fields :
              LET k == CHOOSE n \in Matching(f, tokens) :
                          \A o \in Matching(f, tokens) : n <= o
                  v == Leftmost(f, k, tokens)
              IN  /\ extracted.fields[f].value = v
                  /\ extracted.fields[f].confidence = 70 + Boost(f, v)
                  /\ extracted.fields[f].confidence <= 100

\* a text in which two patterns of one field match with different values
C11_Witness ==
    /\ extracted # NotExtracted
    /\ \E f \in DOMAIN extracted.fields :
          /\ Cardinality(Matching(f, tokens)) > 1
          /\ \E k \in Matching(f, tokens) :
                Leftmost(f, k, tokens) # extracted.fields[f].value

\* ======================================================== claims: ai_analyze
Unavailable(o) == o \in {"connection_error", "timeout", "http_error"}

\* C12: when the Ollama endpoint is unavailable ai_analyze returns the local
\* classification and confidence, model_used local_fallback and
\* ai_service_available false.
C12_LocalFallback ==
    (ai_result # NotAnalysed /\ Unavailable(ai_result.ollama)) =>
        /\ ai_result.result.classification = classify_document(text).type
        /\ ai_result.result.classification_confidence = classify_document(text).confidence
        /\ ai_result.result.model_used = "local_fallback"
        /\ ~ai_result.result.ai_service_available

\* =========================================================== claims: sharing
UnauthenticatedViews ==
    {"access_shared_document", "access_document_via_api", "get_api_status"}

\* the last request was answered by endpoint e with document data
Served(e) == response.endpoint = e /\ response.status = 200

\* C13: the unauthenticated views (by share token, by API key, API status)
\* leave every Document row and every DocumentShare row unchanged, whatever
\* the access level and the API permissions of the share.
C13_ViewsReadOnly ==
    [][response'.endpoint \in UnauthenticatedViews => UNCHANGED <<docs, document_shares>>]_vars

\* an 'edit' share was read through its token
C13_Witness ==
    /\ Served("access_shared_document")
    /\ document_shares[response.key].access_level = "edit"

\* share s may be read now: it exists, is active, is not expired and its
\* document exists
Readable(s) ==
    /\ IsShare(s) /\ document_shares[s].is_active
    /\ (document_shares[s].expires_at = Null \/ document_shares[s].expires_at[1] >= now)
    /\ IsRow(document_shares[s].document_id)

\* the status the conditions on share s give a view that requires `enabled`
StatusOf(s, enabled) ==
    IF ~IsShare(s) \/ ~document_shares[s].is_active \/ ~enabled THEN 404
    ELSE IF document_shares[s].expires_at # Null /\ document_shares[s].expires_at[1] < now
    THEN 410
    ELSE IF ~IsRow(document_shares[s].document_id) THEN 404
    ELSE 200

\* C14: access_shared_document returns data only for an existing, active,
\* unexpired share whose document exists; an unknown or inactive token gives
\* 404, an expired share 410, a deleted document 404.  access_document_via_api
\* does the same by API key and also requires api_endpoint_enabled.
C14_AccessConditions ==
    /\ response.endpoint = "access_shared_document" =>
          /\ response.status = StatusOf(response.key, TRUE)
          /\ response.status = 200 => Readable(response.key)
    /\ response.endpoint = "access_document_via_api" =>
          LET s == response.key
              enabled == IsShare(s) /\ document_shares[s].api_endpoint_enabled
          IN  /\ StatusOf(s, enabled) # 200 => response.status = StatusOf(s, enabled)
              /\ response.status = 200 => Readable(s) /\ enabled

\* an expired share was refused with 410
C14_Witness ==
    /\ response.endpoint = "access_shared_document" /\ response.status = 410
    /\ document_shares[response.key].expires_at # Null
    /\ document_shares[response.key].expires_at[1] < now

\* C15: once revoke_share has succeeded for a share, no unauthenticated view
\* keyed by its token or API key returns data (here: the request that
\* directly follows the revocation).
C15_RevokedReturnsNothing ==
    [][(/\ response.endpoint = "revoke_share" /\ response.status = 200
        /\ response'.endpoint \in UnauthenticatedViews /\ response'.key = response.key)
       => response'.status # 200]_vars

ContentKeys == {"extracted_text", "ai_analysis", "key_value_pairs", "entities"}
MetadataKeys ==
    {"document_id", "filename", "file_size", "mime_type", "created_at", "access_level",
     "message"}

\* the document with other content in the four columns
Contents == [ContentKeys -> {Null, Some("other")}]
Altered(document, c) ==
    [k \in DOMAIN document |-> IF k \in ContentKeys THEN c[k] ELSE document[k]]

\* C16: for a 'view' share access_shared_document returns only metadata (and
\* the constant shared_by 'Anonymous') and the response does not depend on
\* extracted_text, ai_analysis, key_value_pairs or entities; these are
\* returned only for 'comment' or 'edit', or by the API key view when
\* api_permissions.full_access is true.
C16_LevelsGateContent ==
    /\ Served("access_shared_document") =>
          LET share == document_shares[response.key]
              d == share.document_id
          IN  /\ share.access_level = "view" =>
                    /\ DOMAIN response.body = MetadataKeys \union {"shared_by"}
                    /\ response.body.shared_by = "Anonymous"
                    /\ \A c \in Contents :
                          shared_response_data(Altered(docs[d], c), share, d) = response.body
              /\ DOMAIN response.body \intersect ContentKeys # {} =>
                    share.access_level \in {"comment", "edit"}
    /\ Served("access_document_via_api") =>
          LET share == document_shares[response.key]
          IN  DOMAIN response.body \intersect ContentKeys # {} =>
                 \/ share.access_level \in {"comment", "edit"}
                 \/ /\ share.api_permissions # Null
                    /\ "full_access" \in DOMAIN share.api_permissions[1]
                    /\ share.api_permissions[1].full_access

\* a 'view' share of a document with content was read through its token
C16_Witness ==
    /\ Served("access_shared_document")
    /\ document_shares[response.key].access_level = "view"
    /\ docs[document_shares[response.key].document_id].extracted_text # Null

\* ========================================================= claims: ownership
\* the document the request names exists and belongs to another user
Foreign(u, d) == IsRow(d) /\ docs[d].user_id # u

\* C17: a request of a user to a document endpoint (get, status, download,
\* delete, retry, ocr, ai, process, share) returns, changes and deletes no
\* document of another user; naming another user's document gives 404 and
\* leaves the documents and the shares as they were.
C17_OwnerIsolation ==
    [][response'.endpoint \in DocumentEndpoints =>
          /\ \A d \in DocIds : Foreign(response'.user, d) => docs'[d] = docs[d]
          /\ Foreign(response'.user, response'.key) =>
                /\ response'.status = 404
                /\ UNCHANGED <<docs, document_shares>>
          /\ response'.status = 200 => ~Foreign(response'.user, response'.key)]_vars

\* a user asked for an existing document of another user and got 404
C17_Witness ==
    /\ response.endpoint \in DocumentEndpoints
    /\ Foreign(response.user, response.key)
    /\ response.status = 404

\* ============================================================== claims: tags
\* C18: whatever delete_document, bulk 'delete' and delete_tag requests were
\* served, no row of document_tag_association references a document or a tag
\* that no longer exists.
C18_NoDanglingAssociation ==
    \A a \in document_tag_association : IsRow(a[1]) /\ IsTag(a[2])

\* a tag was deleted while its owner's document keeps another tag
C18_Witness ==
    /\ response.endpoint = "delete_tag" /\ response.status = 200
    /\ document_tags[response.key] = DeletedTag
    /\ document_tag_association # {}

\* ------------------------------------------------------------ claims: auth
\* a step that ends with an answer of register: no call is started by it
RegisterAnswered ==
    /\ response'.endpoint = "register"
    /\ \A c \in CallIds : calls'[c] \in {calls[c], NoCall}

\* the answer of register for an email no user has: 200 with `email` and the
\* id of a row that did not exist before and now holds the normalised email
RegisteredAs(email) ==
    /\ response'.status = 200
    /\ response'.body.email = email
    /\ response'.body.id \in UserIds
    /\ ~IsUser(response'.body.id)
    /\ users'[response'.body.id].email = EmailStr(response'.email)

\* every registered user can log in with the stored email and the password:
\* 200 with access_token, refresh_token and token_type 'bearer'
LoginSucceeds ==
    \A i \in UserIds, password \in Passwords, mock \in BOOLEAN :
        IsUser(i) /\ verify_password(password, users[i].password_hash) =>
            LET r == _perform_login(users[i].email, password, mock)
            IN  /\ r.status = 200
                /\ {"access_token", "refresh_token", "token_type"} \subseteq DOMAIN r.body
                /\ r.body.token_type = "bearer"

C20_DuplicateRejected ==
    /\ [][RegisterAnswered /\ existing_user(EmailStr(response'.email)) # 0
          => /\ response'.status = 400
             /\ response'.body = [detail |-> "Email already registered"]
             /\ users' = users]_vars
    /\ [](\A i, j \in UserIds : IsUser(i) /\ IsUser(j) /\ users[i].email = users[j].email
                                 => i = j)

\* ============================================================ claims: retry
\* the status that the next commit of a retry_processing request at position
\* pc writes when nothing raises
RetryWrites(pc) ==
    CASE pc = "processing" -> "processing"
      [] pc = "ocr" -> "ocr_complete"
      [] pc = "ai_processing" -> "ai_processing"
      [] OTHER -> "completed"

\* C21: retry_processing sets the status of the document to uploaded, then
\* processing, ocr_complete, ai_processing and completed, one commit each and
\* in that order, whatever the status was; when a step raises, the request
\* ends there with the document failed and the error recorded on it.
C21_RetrySequence ==
    [][\A p \in ProcIds :
          LET d == procs'[p].doc
              e == procs[p].doc
          IN  /\ procs[p] = NoProc /\ procs'[p] # NoProc /\ procs'[p].kind = "retry"
                    => docs'[d].processing_status = "uploaded" /\ procs'[p].pc = "processing"
              /\ procs[p].kind = "retry" /\ procs'[p] # procs[p] /\ IsRow(e)
                    => \/ /\ docs'[e].processing_status = RetryWrites(procs[p].pc)
                          /\ procs[p].pc = "ai" <=> procs'[p] = NoProc
                       \/ /\ docs'[e].processing_status = "failed"
                          /\ ErrorRecorded(docs'[e])
                          /\ procs'[p] = NoProc]_vars

\* ================================================ claims: background analysis
\* the values of DocumentType
KnownTypes == {"invoice", "contract", "form", "receipt", "letter", "report", "generic"}

\* the columns of a row agree with the analysis a that ai_analyze returned
ReflectsAnalysis(row, a) ==
    /\ row.key_value_pairs = Some(a.key_value_pairs)
    /\ row.entities = Some(a.entities)
    /\ row.document_type =
          IF a.classification \in KnownTypes THEN a.classification ELSE "generic"

\* C22: when process_document_background commits after the analysis of an OCR
\* text of at least 10 characters, the row holds the key-value pairs, the
\* entities and the classification of the analysis that ai_analyze returned.
C22_StoredAnalysis ==
    [][\A p \in ProcIds :
          At(p, "background", "ai") /\ procs'[p] = NoProc /\ IsRow(procs[p].doc)
            => \E up \in BOOLEAN :
                  ReflectsAnalysis(docs'[procs[p].doc],
                                   DocAnalysis(procs[p].ocr_result.text, up))]_vars

\* =========================================================== claims: export
\* C23: the export_id in the answer of a successful export_document names the
\* file just written: get_export_file_path, which download_export and
\* get_export_status use, finds a file for it.
C23_ExportIdRoundTrip ==
    response.endpoint = "export_document" /\ response.status = 200
        => get_export_file_path(response.body.export_id) # {}

\* the resource that the request just answered names does not exist for its user
MissingResource ==
    \/ /\ response'.endpoint \in {"export_document", "add_tag_to_document"}
       /\ ~OwnDocument(response'.user, response'.key)
    \/ /\ response'.endpoint \in {"update_export_config", "delete_export_config"}
       /\ ~OwnConfig(response'.user, response'.key)
    \/ /\ response'.endpoint \in {"update_tag", "delete_tag"}
       /\ ~OwnTag(response'.user, response'.key)

\* C24: a request of the export or tag routers that names a document, config
\* or tag which does not exist for the current user is answered 404 and
\* changes nothing.
C24_MissingIs404 ==
    [][MissingResource
          => /\ response'.status = 404
             /\ UNCHANGED <<docs, exportVars, tagVars>>]_vars

\* C28: exports leave ExportService.templates as __init__ built it, and an
\* export without export_config is made with the original settings of its
\* template.
C28_TemplatesUnchanged ==
    /\ templates = DefaultTemplates
    /\ response.endpoint = "export_document" /\ response.status = 200
         /\ response.body.config = 0
        => \A f \in get_export_file_path(response.body.download_url) :
              f.data = _prepare_export_data(docs[f.document],
                          DefaultTemplates[TemplateKey(response.body.template_name)])

\* ============================================================ claims: batch cache
IsBatchError(r) == "error" \in DOMAIN r

\* the first position of a call at which the path of position i occurs
FirstOccurrence(file_paths, i) ==
    CHOOSE j \in 1..i : file_paths[j] = file_paths[i]
                        /\ \A k \in 1..(j - 1) : file_paths[k] # file_paths[i]

\* C25: process_batch answers every path of the call; a path found in the
\* cache gets the cached result itself and is not processed again; a path not
\* in the cache is processed now, and its result is cached iff processing did
\* not raise (later occurrences in the same call then get that same result);
\* an error entry is never cached; a cached entry stays until clear_cache
\* empties the whole cache.
C25_CachesOnlySuccesses ==
    [][/\ batch' # batch =>
            LET file_paths == batch'.file_paths
                results == batch'.results
            IN  /\ Len(results) = Len(file_paths)
                /\ \A i \in 1..Len(file_paths) :
                      LET p == file_paths[i]
                          j0 == FirstOccurrence(file_paths, i)
                      IN  /\ results[i].file_path = p
                          /\ cache[p] # Null =>
                                results[i] = cache[p][1] /\ cache'[p] = cache[p]
                          /\ cache[p] = Null =>
                                /\ results[j0].processing_timestamp = now
                                /\ results[i] = results[j0]
                                /\ IF IsBatchError(results[i])
                                   THEN cache'[p] = Null
                                   ELSE cache'[p] = Some(results[j0])
                /\ \A p \in BatchPaths :
                      (\A i \in 1..Len(file_paths) : file_paths[i] # p) => cache'[p] = cache[p]
       /\ \A p \in BatchPaths :
             cache[p] # Null =>
                cache'[p] = cache[p] \/ cache' = [q \in BatchPaths |-> Null]]_vars

\* a later call answered one path from the cache (the result of an earlier
\* time) and reported another path's error without stopping at it
C25_Witness ==
    /\ batch.at = 1
    /\ Len(batch.results) = 2
    /\ IsBatchError(batch.results[1])
    /\ ~IsBatchError(batch.results[2])
    /\ batch.results[2].processing_timestamp = 0
    /\ cache[batch.file_paths[2]] = Some(batch.results[2])
    /\ cache[batch.file_paths[1]] = Null

\* ============================================================ claims: overlapping tasks
\* a process_document_background task for document d has been scheduled and
\* has not returned yet
InFlight(d) ==
    \E p \in ProcIds : procs[p] # NoProc /\ procs[p].kind = "background" /\ procs[p].doc = d

\* C26: a document whose processing_status is completed or failed has no
\* background processing task in flight.
C26_TerminalMeansNoTask ==
    \A d \in DocIds :
        IsRow(d) /\ docs[d].processing_status \in {"completed", "failed"} => ~InFlight(d)

\* ============================================================ claims: usage count
\* the jobs of model m that ended in status completed
CompletedJobs(m) ==
    {j \in JobIds : jobs[j] # AbsentJob /\ jobs[j].ai_model_id = m
                    /\ jobs[j].status = "completed"}

\* C27: once every execution has ended, a model's usage_count is the number
\* of its jobs that ended in status completed.
C27_UsageCountsCompletedJobs ==
    (\A j \in JobIds : workers[j].pc = "done") =>
        \A m \in ModelIds :
            ai_models[m] # AbsentModel =>
                ai_models[m].usage_count = Cardinality(CompletedJobs(m))

\* ============================================================ claims: bulk operations
\* the last answer is that of a bulk 'reprocess' that reset document d
Reprocessed(d) ==
    /\ response.endpoint = "bulk_operation" /\ response.status = 200
    /\ response.body.operation = "reprocess"
    /\ d \in response.key

\* C29: a document reset by a bulk 'reprocess' eventually reaches completed or
\* failed (unless it is deleted) without any further request.
C29_ReprocessedIsProcessed ==
    \A d \in DocIds :
        [](Reprocessed(d) =>
              <>(IsRow(d) => docs[d].processing_status \in {"completed", "failed"}))

\* C30: every row of document_tag_association links a document and an
\* existing tag of the same user.
C30_TagsWithinOwner ==
    \A a \in document_tag_association :
        /\ IsRow(a[1]) /\ IsTag(a[2])
        /\ docs[a[1]].user_id = document_tags[a[2]].user_id

====
